---- MODULE Spec2Model ----
\* Device command orchestration of the eSSL/ZKTeco ADMS push server:
\*   - the Device/ADMSQueue path   (app/utils/adms_queue.py, app/utils/device.py,
\*     app/utils/device_manager.py, app/services/polling_service.py,
\*     app/routers/commands.py)
\*   - the CommandManager path     (app/utils/command_manager.py,
\*     app/routers/push_api.py)
\* Strings that are built or taken apart by the code (command ids, command
\* texts, wire lines, response bodies) are sequences of one-character strings.
EXTENDS Integers, Sequences, FiniteSets, TLC

VARIABLES
    now,              \* the wall clock read by datetime.now()
    device_registry,  \* DeviceManager.device_registry : SN -> Device
    device_commands,  \* CommandManager._device_commands : SN -> list of commands
    device_seq,       \* CommandManager._device_seq : SN -> last id
    last_attlog,      \* push_api.last_attlog (process-wide)
    ret,              \* what the most recent call returned to its caller
    issued,           \* history: ids returned by the enqueues of each ADMSQueue
    cm_issued,        \* history: ids returned by CommandManager.queue_command per SN
    heartbeats,       \* the calls of PollingService.get_commands that are under way
    enqueues          \* the calls of ADMSQueue.add_command that are under way

vars == <<now, device_registry, device_commands, device_seq, last_attlog, ret,
          issued, cm_issued, heartbeats, enqueues>>

-----------------------------------------------------------------------------
\* Bounds of the model

SerialNumbers == {"SN1", "SN2"}
MaxCommands == 2
MaxTime == 1
MaxKeep == 2

\* Program constants

None == "None"
NoTime == -1
ACK == <<"O", "K">>
RETURN_CODE_SUCCESS == <<"0">>
REBOOT == <<"R", "E", "B", "O", "O", "T">>
QUERY_ATTLOG == <<"D", "A", "T", "A", " ", "Q", "U", "E", "R", "Y", " ",
                  "A", "T", "T", "L", "O", "G">>
ATTLOG_FREQUENCY_MINUTES == 5
INITIAL_ATTLOG_AGE == 10
ADMS_INITIAL_SEQUENCE == 1

\* Inputs

\* The command text an administrator queues: a single-line ADMS command that
\* carries colons, as the time-range queries of app/commands.py do.
CommandTexts == { <<"T", "=", "1", ":", "0", ":", "5">> }
ReturnCodes == { <<"0">>, <<"-", "1">> }

-----------------------------------------------------------------------------
\* str(int) and int(str)

Digits == <<"0", "1", "2", "3", "4", "5", "6", "7", "8", "9">>

RECURSIVE str(_)
str(n) == IF n < 10 THEN <<Digits[n + 1]>>
          ELSE str(n \div 10) \o <<Digits[(n % 10) + 1]>>

IsDigit(c) == \E i \in 1..10 : Digits[i] = c
DigitValue(c) == (CHOOSE i \in 1..10 : Digits[i] = c) - 1

\* int(s) drops the whitespace around s and reads an optional sign and a run of
\* digits; it raises ValueError on anything else (the underscores Python also
\* allows between digits are not drawn)
RECURSIVE Strip(_)
Strip(s) == IF Len(s) = 0 THEN s
            ELSE IF s[1] = " " THEN Strip(Tail(s))
            ELSE IF s[Len(s)] = " " THEN Strip(SubSeq(s, 1, Len(s) - 1))
            ELSE s

Unsigned(s) == IF Len(s) > 0 /\ s[1] \in {"+", "-"} THEN Tail(s) ELSE s

IntParses(s) ==
    LET t == Unsigned(Strip(s)) IN Len(t) > 0 /\ \A i \in 1..Len(t) : IsDigit(t[i])

RECURSIVE DecimalValue(_)
DecimalValue(s) == IF Len(s) = 1 THEN DigitValue(s[1])
                   ELSE 10 * DecimalValue(SubSeq(s, 1, Len(s) - 1)) + DigitValue(s[Len(s)])

int(s) == LET t == Strip(s) IN
          IF t[1] = "-" THEN 0 - DecimalValue(Unsigned(t)) ELSE DecimalValue(Unsigned(t))

-----------------------------------------------------------------------------
\* ADMSQueue (app/utils/adms_queue.py)

ADMSQueue(commands, command_sequence) ==
    [commands |-> commands, command_sequence |-> command_sequence]

next_sequence(q) == q.command_sequence + 1

DeviceCommand(id, command, t) ==
    [id |-> id, command |-> command, status |-> "pending", queued_at |-> t,
     sent_at |-> NoTime, ack_at |-> NoTime, return_code |-> None]

add_command(q, command, t) ==
    ADMSQueue(Append(q.commands, DeviceCommand(str(next_sequence(q)), command, t)),
              next_sequence(q))

\* variant: a drain that hands out the oldest pending command only
get_pending_commands_oldest(q) ==
    LET pending == SelectSeq(q.commands, LAMBDA c : c.status = "pending") IN
    IF Len(pending) = 0 THEN pending ELSE <<pending[1]>>

get_pending_commands(q) == SelectSeq(q.commands, LAMBDA c : c.status = "pending")

\* index of the first command carrying the id, 0 when there is none
FirstWithId(commands, id) ==
    IF \E i \in 1..Len(commands) : commands[i].id = id
    THEN CHOOSE i \in 1..Len(commands) :
            /\ commands[i].id = id
            /\ \A j \in 1..(i - 1) : commands[j].id # id
    ELSE 0

mark_command_sent(q, command_id, t) ==
    LET i == FirstWithId(q.commands, command_id) IN
    IF i = 0 THEN q
    ELSE [q EXCEPT !.commands[i].status = "sent", !.commands[i].sent_at = t]

\* variant: the oldest sent command is acknowledged, whatever id is named
mark_command_acked_by_position(q, command_id, return_code, t) ==
    LET sent == { i \in 1..Len(q.commands) : q.commands[i].status = "sent" } IN
    IF sent = {} \/ FirstWithId(q.commands, command_id) = 0 THEN q
    ELSE LET i == CHOOSE h \in sent : \A g \in sent : h <= g IN
         [q EXCEPT !.commands[i].status = "acked",
                   !.commands[i].ack_at = t,
                   !.commands[i].return_code = return_code]

mark_command_acked(q, command_id, return_code, t) ==
    LET i == FirstWithId(q.commands, command_id) IN
    IF i = 0 THEN q
    ELSE [q EXCEPT !.commands[i].status = "acked",
                   !.commands[i].ack_at = t,
                   !.commands[i].return_code = return_code]

-----------------------------------------------------------------------------
\* Device (app/utils/device.py)

\* variant: a new Device starts in mode socket+adms
Device_socket_mode(sn) ==
    [sn |-> sn, ip |-> None, info |-> None,
     connection_mode |-> "socket+adms", socket_mode |-> FALSE, zk_is_connect |-> FALSE,
     adms_queue |-> ADMSQueue(<< >>, ADMS_INITIAL_SEQUENCE)]

Device(sn) ==
    [sn |-> sn, ip |-> None, info |-> None,
     connection_mode |-> "adms", socket_mode |-> FALSE, zk_is_connect |-> FALSE,
     adms_queue |-> ADMSQueue(<< >>, ADMS_INITIAL_SEQUENCE)]

\* is_socket_mode() stores its answer in self.socket_mode
is_socket_mode(d) ==
    [d EXCEPT !.socket_mode = d.zk_is_connect /\ d.connection_mode = "socket+adms"]

\* variant: a failed connect attempt leaves the mode as it was
set_socket_mode_keeps_mode(d, is_on, force, connect_ok) ==
    IF d.connection_mode = "adms" THEN d
    ELSE LET d1 == is_socket_mode(d) IN
         IF is_on = d1.socket_mode /\ ~force THEN d1
         ELSE LET d2 == IF d1.zk_is_connect
                        THEN [d1 EXCEPT !.zk_is_connect = FALSE,
                                        !.socket_mode = FALSE,
                                        !.connection_mode = "adms"]
                        ELSE d1
              IN  IF ~is_on THEN d2
                  ELSE IF connect_ok
                       THEN [d2 EXCEPT !.zk_is_connect = TRUE,
                                       !.socket_mode = TRUE,
                                       !.connection_mode = "socket+adms"]
                       ELSE [d2 EXCEPT !.zk_is_connect = FALSE,
                                       !.socket_mode = FALSE,
                                       !.connection_mode = d.connection_mode]

\* variant: force is not looked at
set_socket_mode_ignores_force(d, is_on, force, connect_ok) ==
    IF d.connection_mode = "adms" THEN d
    ELSE LET d1 == is_socket_mode(d) IN
         IF is_on = d1.socket_mode THEN d1
         ELSE LET d2 == IF d1.zk_is_connect
                        THEN [d1 EXCEPT !.zk_is_connect = FALSE,
                                        !.socket_mode = FALSE,
                                        !.connection_mode = "adms"]
                        ELSE d1
              IN  IF ~is_on THEN d2
                  ELSE IF connect_ok
                       THEN [d2 EXCEPT !.zk_is_connect = TRUE,
                                       !.socket_mode = TRUE,
                                       !.connection_mode = "socket+adms"]
                       ELSE [d2 EXCEPT !.zk_is_connect = FALSE,
                                       !.socket_mode = FALSE,
                                       !.connection_mode = "adms"]

\* connect_ok: whether zk.connect() succeeds
set_socket_mode(d, is_on, force, connect_ok) ==
    IF d.connection_mode = "adms" THEN d
    ELSE LET d1 == is_socket_mode(d) IN
         IF is_on = d1.socket_mode /\ ~force THEN d1
         ELSE LET d2 == IF d1.zk_is_connect
                        THEN [d1 EXCEPT !.zk_is_connect = FALSE,
                                        !.socket_mode = FALSE,
                                        !.connection_mode = "adms"]
                        ELSE d1
              IN  IF ~is_on THEN d2
                  ELSE IF connect_ok
                       THEN [d2 EXCEPT !.zk_is_connect = TRUE,
                                       !.socket_mode = TRUE,
                                       !.connection_mode = "socket+adms"]
                       ELSE [d2 EXCEPT !.zk_is_connect = FALSE,
                                       !.socket_mode = FALSE,
                                       !.connection_mode = "adms"]

Device_mark_commands_sent(d, command_ids, t) ==
    LET RECURSIVE marked(_, _)
        marked(q, k) == IF k > Len(command_ids) THEN q
                        ELSE marked(mark_command_sent(q, command_ids[k], t), k + 1)
    IN  [d EXCEPT !.adms_queue = marked(d.adms_queue, 1)]

Device_mark_command_acked(d, command_id, return_code, t) ==
    [d EXCEPT !.adms_queue = mark_command_acked(d.adms_queue, command_id, return_code, t)]

-----------------------------------------------------------------------------
\* DeviceManager (app/utils/device_manager.py)

add_device(reg, d) ==
    IF d.sn \notin DOMAIN reg THEN reg @@ (d.sn :> d) ELSE reg

\* a lookup that registers the serial number it does not find
get_device_or_create(reg, sn, connect_ok) ==
    IF sn \notin DOMAIN reg THEN reg @@ (sn :> Device(sn)) ELSE reg

\* get_device(sn) returns reg[sn] (None when absent); on the way it refreshes
\* socket_mode and attempts a reconnect, so it yields the registry afterwards.
get_device(reg, sn, connect_ok) ==
    IF sn \notin DOMAIN reg THEN reg
    ELSE LET d1 == is_socket_mode(reg[sn]) IN
         IF ~d1.socket_mode
         THEN [reg EXCEPT ![sn] = set_socket_mode(d1, TRUE, FALSE, connect_ok)]
         ELSE [reg EXCEPT ![sn] = d1]

-----------------------------------------------------------------------------
\* Inputs of the device-facing handlers

\* An INFO token: present (non-empty string) or not, how many comma-separated
\* parts it has, whether its count fields are integers, and the IP it reports.
NoInfo == [present |-> FALSE, nparts |-> 0, ints_ok |-> FALSE, ip |-> None]
InfoTokens ==
    { NoInfo,
      [present |-> TRUE, nparts |-> 3,  ints_ok |-> TRUE,  ip |-> "10.0.0.5"],
      [present |-> TRUE, nparts |-> 10, ints_ok |-> FALSE, ip |-> "10.0.0.5"],
      [present |-> TRUE, nparts |-> 10, ints_ok |-> TRUE,  ip |-> "10.0.0.5"] }

\* parse_info raises ValueError on fewer than 10 parts or a non-integer count
parse_info_raises(info) == info.nparts < 10 \/ ~info.ints_ok

\* An acknowledgment line is a sequence of '&'-separated parameters; a
\* parameter with '=' is a key and a value, one without has key NoKey.
NoKey == "NoKey"
Param(k, v) == [key |-> k, value |-> v]
\* Ids a device may name: those the queues can have issued, and one more.
AckNumbers == 1..(MaxCommands + 1)
AckIds == { str(n) : n \in AckNumbers }
AckRecord(i, r) == <<Param("ID", i), Param("Return", r), Param("CMD", REBOOT)>>
GoodLines == { AckRecord(i, r) : i \in AckIds, r \in ReturnCodes }
OddLines ==
    { <<Param("CMD", REBOOT), Param("Return", RETURN_CODE_SUCCESS), Param("ID", str(2))>>,
      <<Param("ID", str(2)), Param("CMD", REBOOT)>>,
      <<Param(NoKey, <<"x">>)>> }
AckLines == GoodLines \cup OddLines
\* records whose ID is not an alphanumeric token of at most 16 characters:
\* a blank before the digits, no ID value at all, 17 digits
LongId == [i \in 1..17 |-> IF i = 17 THEN "1" ELSE "0"]
InvalidIds == { <<" ", "1">>, << >>, LongId }
InvalidIdLines == { AckRecord(i, RETURN_CODE_SUCCESS) : i \in InvalidIds }

\* no record; one record; a record that is malformed, names an invalid id or
\* reports a failure, followed by one that reports success
AckBodies ==
    { << >> }
    \cup { <<l>> : l \in AckLines \cup InvalidIdLines }
    \cup { <<l1, AckRecord(i, RETURN_CODE_SUCCESS)>> :
             l1 \in OddLines \cup { AckRecord(j, <<"-", "1">>) : j \in AckIds },
             i \in AckIds }
    \cup { <<AckRecord(<<" ", "1">>, RETURN_CODE_SUCCESS),
             AckRecord(str(2), RETURN_CODE_SUCCESS)>> }

-----------------------------------------------------------------------------
\* app/utils/parsers.py

\* parse_ack_line: the dict built from the parameters (a later key overwrites
\* an earlier one), then AckLine(**dict), which raises when a field is missing.
AckParam(line, k) ==
    LET idx == { i \in 1..Len(line) : line[i].key = k } IN
    IF idx = {} THEN None
    ELSE line[CHOOSE i \in idx : \A j \in idx : j <= i].value

parse_ack_line_raises(line) ==
    \E k \in {"ID", "Return", "CMD"} : \A i \in 1..Len(line) : line[i].key # k

parse_ack_line(line) ==
    [ID |-> AckParam(line, "ID"), Return |-> AckParam(line, "Return"),
     CMD |-> AckParam(line, "CMD")]

-----------------------------------------------------------------------------
\* PollingService (app/services/polling_service.py)

\* variant: the text written before the id
WireLine_text_first(cmd_id, command) == <<"C", ":">> \o command \o <<":">> \o cmd_id

WireLine(cmd_id, command) == <<"C", ":">> \o cmd_id \o <<":">> \o command

\* variant: the last line left without its newline
RECURSIVE JoinLines_unterminated(_)
JoinLines_unterminated(lines) ==
    IF Len(lines) = 0 THEN << >>
    ELSE IF Len(lines) = 1 THEN lines[1]
    ELSE lines[1] \o <<"\n">> \o JoinLines_unterminated(Tail(lines))

\* "\n".join(lines) + '\n'
RECURSIVE JoinLines(_)
JoinLines(lines) ==
    IF Len(lines) = 0 THEN <<"\n">>
    ELSE IF Len(lines) = 1 THEN lines[1] \o <<"\n">>
    ELSE lines[1] \o <<"\n">> \o JoinLines(Tail(lines))

CommandText(pending) ==
    JoinLines([i \in 1..Len(pending) |-> WireLine(pending[i].id, pending[i].command)])

IdsOf(cmds) == { cmds[i].id : i \in 1..Len(cmds) }

\* ok: the call returned normally and did not answer False or an HTTP error;
\* body: the text (or count) it answered; cmds: the commands it returned;
\* repeat: it is a drain that directly follows a drain of the same serial number
Returned(op, sn, ok, body, cmds) ==
    [op |-> op, sn |-> sn, ok |-> ok, body |-> body, cmds |-> cmds, repeat |-> FALSE]

Drained(op, sn, body, cmds) ==
    [op |-> op, sn |-> sn, ok |-> TRUE, body |-> body, cmds |-> cmds,
     repeat |-> ret.op = op /\ ret.sn = sn /\ ret.ok]

RECURSIVE SumLen(_, _)
SumLen(f, keys) ==
    IF keys = {} THEN 0
    ELSE LET k == CHOOSE x \in keys : TRUE IN Len(f[k]) + SumLen(f, keys \ {k})

\* number of commands enqueued so far, over all queues
TotalIssued == SumLen(issued, DOMAIN issued) + SumLen(cm_issued, DOMAIN cm_issued)

CMUnchanged == UNCHANGED <<device_commands, device_seq, last_attlog, cm_issued>>
DeviceUnchanged == UNCHANGED <<device_registry, issued>>

\* the metadata update of get_commands on an INFO token that parsed
UpdateMetadata(d, info, can_connect, connect_ok) ==
    LET d1 == [d EXCEPT !.ip = info.ip, !.info = info.ip] IN
    IF can_connect /\ d1.connection_mode # "adms"
    THEN set_socket_mode([d1 EXCEPT !.connection_mode = "socket+adms"],
                         TRUE, FALSE, connect_ok)
    ELSE d1

get_commands(sn, info, can_connect, connect_ok) ==
    LET reg1 == get_device(device_registry, sn, connect_ok)
        reg2 == IF sn \in DOMAIN reg1 THEN reg1 ELSE add_device(reg1, Device(sn))
    IN
    /\ UNCHANGED now
    /\ CMUnchanged
    /\ UNCHANGED <<heartbeats, enqueues>>
    /\ UNCHANGED issued
    /\ IF info.present /\ parse_info_raises(info)
       THEN /\ device_registry' = reg2
            /\ ret' = Returned("get_commands", sn, FALSE, << >>, << >>)
       ELSE LET d == IF info.present
                     THEN UpdateMetadata(reg2[sn], info, can_connect, connect_ok)
                     ELSE reg2[sn]
                pending_commands == get_pending_commands(d.adms_queue)
            IN  /\ device_registry' = [reg2 EXCEPT ![sn] = d]
                /\ ret' = Drained("get_commands", sn,
                                  IF Len(pending_commands) > 0
                                  THEN CommandText(pending_commands) ELSE ACK,
                                  pending_commands)

\* _process_single_ack_line: a line that does not parse is logged and skipped
process_single_ack_line(d, line, t) ==
    IF parse_ack_line_raises(line) THEN d
    ELSE LET ack_params == parse_ack_line(line) IN
         Device_mark_command_acked(d, ack_params.ID, ack_params.Return, t)

\* an acknowledgment handler that fails on a serial number it does not know
ack_command_unknown_fails(sn, body, connect_ok) ==
    LET reg1 == get_device(device_registry, sn, connect_ok)
        RECURSIVE processed(_, _)
        processed(d, k) == IF k > Len(body) THEN d
                           ELSE processed(process_single_ack_line(d, body[k], now), k + 1)
    IN
    /\ UNCHANGED <<now, issued>>
    /\ CMUnchanged
    /\ UNCHANGED <<heartbeats, enqueues>>
    /\ device_registry' = IF sn \in DOMAIN reg1
                          THEN [reg1 EXCEPT ![sn] = processed(reg1[sn], 1)]
                          ELSE reg1
    /\ ret' = IF sn \in DOMAIN reg1
              THEN Returned("ack_command", sn, TRUE, ACK, << >>)
              ELSE Returned("ack_command", sn, FALSE, << >>, << >>)

\* PollingService.ack_command: an unknown device is answered OK at once; the
\* non-empty lines of the body are processed one by one
ack_command(sn, body, connect_ok) ==
    LET reg1 == get_device(device_registry, sn, connect_ok)
        RECURSIVE processed(_, _)
        processed(d, k) == IF k > Len(body) THEN d
                           ELSE processed(process_single_ack_line(d, body[k], now), k + 1)
    IN
    /\ UNCHANGED <<now, issued>>
    /\ CMUnchanged
    /\ UNCHANGED <<heartbeats, enqueues>>
    /\ device_registry' = IF sn \in DOMAIN reg1
                          THEN [reg1 EXCEPT ![sn] = processed(reg1[sn], 1)]
                          ELSE reg1
    /\ ret' = Returned("ack_command", sn, TRUE, ACK, << >>)

\* Device.mark_commands_sent on a registered device
mark_commands_sent(sn, command_ids) ==
    /\ sn \in DOMAIN device_registry
    /\ UNCHANGED <<now, issued>>
    /\ CMUnchanged
    /\ UNCHANGED <<heartbeats, enqueues>>
    /\ device_registry' = [device_registry EXCEPT
                             ![sn] = Device_mark_commands_sent(@, command_ids, now)]
    /\ ret' = Returned("mark_commands_sent", sn, TRUE, << >>, << >>)

-----------------------------------------------------------------------------
\* app/routers/commands.py

\* POST /devices/{sn}/commands:queue
queue_command(device_sn, command, connect_ok) ==
    LET reg1 == get_device(device_registry, device_sn, connect_ok) IN
    /\ UNCHANGED now
    /\ CMUnchanged
    /\ UNCHANGED <<heartbeats, enqueues>>
    /\ IF device_sn \notin DOMAIN reg1
       THEN /\ device_registry' = reg1
            /\ UNCHANGED issued
            /\ ret' = Returned("queue_command", device_sn, FALSE, << >>, << >>)
       ELSE /\ TotalIssued < MaxCommands
            /\ LET q == add_command(reg1[device_sn].adms_queue, command, now)
                   queued_command == q.commands[Len(q.commands)]
               IN  /\ device_registry' = [reg1 EXCEPT ![device_sn].adms_queue = q]
                   /\ issued' = [issued EXCEPT ![device_sn] = Append(@, queued_command.id)]
                   /\ ret' = Returned("queue_command", device_sn, TRUE, << >>,
                                      <<queued_command>>)

\* _cleanup_device_commands: position of commands[i] in the list of acked
\* commands sorted by ack_at, newest first (the sort is stable)
AckedRank(commands, i) ==
    Cardinality({ j \in 1..Len(commands) :
                    /\ commands[j].status = "acked" /\ commands[j].ack_at # NoTime
                    /\ \/ commands[j].ack_at > commands[i].ack_at
                       \/ commands[j].ack_at = commands[i].ack_at /\ j < i })

\* variant: a sent command counts as completed too
IsAcked_or_sent(c) == c.status \in {"acked", "sent"}

IsAcked(c) == c.status = "acked" /\ c.ack_at # NoTime

\* variant: the first keep_last_n acknowledged commands of the list are kept
cleanup_device_commands_keep_first(d, keep_last_n) ==
    LET commands == d.adms_queue.commands
        Before(i) == Cardinality({ j \in 1..(i - 1) : IsAcked(commands[j]) })
        Remove(i) == IsAcked(commands[i]) /\ Before(i) >= keep_last_n
        RECURSIVE kept(_)
        kept(i) == IF i > Len(commands) THEN << >>
                   ELSE (IF Remove(i) THEN << >> ELSE <<commands[i]>>) \o kept(i + 1)
    IN  [d EXCEPT !.adms_queue.commands = kept(1)]

cleanup_device_commands(d, keep_last_n) ==
    LET commands == d.adms_queue.commands
        Remove(i) == IsAcked(commands[i]) /\ AckedRank(commands, i) >= keep_last_n
        RECURSIVE kept(_)
        kept(i) == IF i > Len(commands) THEN << >>
                   ELSE (IF Remove(i) THEN << >> ELSE <<commands[i]>>) \o kept(i + 1)
    IN  [d EXCEPT !.adms_queue.commands = kept(1)]

CleanedCount(d, keep_last_n) ==
    Len(d.adms_queue.commands) - Len(cleanup_device_commands(d, keep_last_n).adms_queue.commands)

\* POST /devices/{sn}/commands:cleanup; device_sn = None when the request names
\* no device: that branch calls device_manager.list_devices(), which
\* DeviceManager does not define, and the handler answers HTTP 500.
cleanup_commands(device_sn, keep_last_n, connect_ok) ==
    LET reg1 == get_device(device_registry, device_sn, connect_ok) IN
    /\ UNCHANGED <<now, issued>>
    /\ CMUnchanged
    /\ UNCHANGED <<heartbeats, enqueues>>
    /\ IF device_sn = None
       THEN /\ UNCHANGED device_registry
            /\ ret' = Returned("cleanup_commands", device_sn, FALSE, << >>, << >>)
       ELSE IF device_sn \notin DOMAIN reg1
       THEN /\ device_registry' = reg1
            /\ ret' = Returned("cleanup_commands", device_sn, FALSE, << >>, << >>)
       ELSE /\ device_registry' =
                 [reg1 EXCEPT ![device_sn] = cleanup_device_commands(@, keep_last_n)]
            /\ ret' = Returned("cleanup_commands", device_sn, TRUE,
                               str(CleanedCount(reg1[device_sn], keep_last_n)), << >>)

-----------------------------------------------------------------------------
\* CommandManager (app/utils/command_manager.py); cm is the pair of its dicts

\* variant: one value shared by every key of the dict
Put_shared(dict, k, v) == [x \in (DOMAIN dict) \cup {k} |-> v]

Put(dict, k, v) == [x \in (DOMAIN dict) \cup {k} |-> IF x = k THEN v ELSE dict[x]]
Del(dict, k) == [x \in (DOMAIN dict) \ {k} |-> dict[x]]
Get(dict, k, default) == IF k \in DOMAIN dict THEN dict[k] ELSE default

CommandManager(dc, seq) == [device_commands |-> dc, device_seq |-> seq]

\* variant: the id taken from the length of the list instead of the counter
next_command_id_for_from_length(cm, sn) == Len(Get(cm.device_commands, sn, << >>)) + 1

next_command_id_for(cm, sn) == Get(cm.device_seq, sn, 0) + 1

CMCommand(id, command, t) ==
    [id |-> id, command |-> command, status |-> "pending", queuedAt |-> t,
     sentAt |-> NoTime, doneAt |-> NoTime, deviceAck |-> None]

\* each operation yields the manager afterwards (cm) and what it returns (out);
\* acknowledge_command also yields the command object it marked done and then
\* popped from the list (done), which its callers and the log still refer to
\* variant: the new command put at the head of the list
CommandManager_queue_command_at_head(cm, sn, command_text, t) ==
    LET command_id == next_command_id_for(cm, sn)
        cmd == CMCommand(command_id, command_text, t)
    IN  [cm |-> CommandManager(
                  Put(cm.device_commands, sn,
                      <<cmd>> \o Get(cm.device_commands, sn, << >>)),
                  Put(cm.device_seq, sn, command_id)),
         out |-> cmd]

CommandManager_queue_command(cm, sn, command_text, t) ==
    LET command_id == next_command_id_for(cm, sn)
        cmd == CMCommand(command_id, command_text, t)
    IN  [cm |-> CommandManager(
                  Put(cm.device_commands, sn,
                      Append(Get(cm.device_commands, sn, << >>), cmd)),
                  Put(cm.device_seq, sn, command_id)),
         out |-> cmd]

\* variant: the pending commands returned without being marked
CommandManager_get_pending_commands_unmarked(cm, sn, t) ==
    LET device_cmds == Get(cm.device_commands, sn, << >>) IN
    [cm |-> cm, out |-> SelectSeq(device_cmds, LAMBDA c : c.status = "pending")]

CommandManager_get_pending_commands(cm, sn, t) ==
    LET device_cmds == Get(cm.device_commands, sn, << >>)
        marked == [i \in 1..Len(device_cmds) |->
                     IF device_cmds[i].status = "pending"
                     THEN [device_cmds[i] EXCEPT !.status = "sent", !.sentAt = t]
                     ELSE device_cmds[i]]
        pending == { i \in 1..Len(device_cmds) : device_cmds[i].status = "pending" }
        RECURSIVE collect(_)
        collect(i) == IF i > Len(device_cmds) THEN << >>
                      ELSE (IF i \in pending THEN <<marked[i]>> ELSE << >>) \o collect(i + 1)
    IN  [cm |-> IF sn \in DOMAIN cm.device_commands
                THEN [cm EXCEPT !.device_commands[sn] = marked]
                ELSE cm,
         out |-> collect(1)]

RemoveAt(seq, i) == SubSeq(seq, 1, i - 1) \o SubSeq(seq, i + 1, Len(seq))

\* variant: the status of the command is not looked at
CommandManager_acknowledge_command_any_status(cm, sn, command_id, device_ack, t) ==
    LET device_cmds == Get(cm.device_commands, sn, << >>)
        hits == { i \in 1..Len(device_cmds) : device_cmds[i].id = command_id }
    IN  IF hits = {} THEN [cm |-> cm, out |-> FALSE, done |-> << >>]
        ELSE LET i == CHOOSE h \in hits : \A g \in hits : h <= g
                 cmd == [device_cmds[i] EXCEPT !.status = "done", !.doneAt = t,
                                               !.deviceAck = device_ack]
                 rest == RemoveAt(device_cmds, i)
             IN  [cm |-> [cm EXCEPT !.device_commands =
                                     IF Len(rest) = 0 THEN Del(@, sn)
                                     ELSE Put(@, sn, rest)],
                  out |-> TRUE, done |-> <<cmd>>]

CommandManager_acknowledge_command(cm, sn, command_id, device_ack, t) ==
    LET device_cmds == Get(cm.device_commands, sn, << >>)
        hits == { i \in 1..Len(device_cmds) :
                    device_cmds[i].id = command_id /\ device_cmds[i].status = "sent" }
    IN  IF hits = {} THEN [cm |-> cm, out |-> FALSE, done |-> << >>]
        ELSE LET i == CHOOSE h \in hits : \A g \in hits : h <= g
                 cmd == [device_cmds[i] EXCEPT !.status = "done", !.doneAt = t,
                                               !.deviceAck = device_ack]
                 rest == RemoveAt(device_cmds, i)
             IN  [cm |-> [cm EXCEPT !.device_commands =
                                     IF Len(rest) = 0 THEN Del(@, sn)
                                     ELSE Put(@, sn, rest)],
                  out |-> TRUE, done |-> <<cmd>>]

LastN(seq, n) == IF n = 0 THEN seq ELSE SubSeq(seq, Len(seq) - n + 1, Len(seq))

\* cleanup of one device's list
CleanupOne(dc, device_sn, keep_last_n) ==
    LET device_cmds == Get(dc, device_sn, << >>)
        active_commands == SelectSeq(device_cmds, LAMBDA c : c.status \in {"pending", "sent"})
        done_commands == SelectSeq(device_cmds, LAMBDA c : c.status = "done")
    IN  IF Len(done_commands) > keep_last_n
        THEN [dc |-> Put(dc, device_sn, active_commands \o LastN(done_commands, keep_last_n)),
              cleaned |-> Len(done_commands) - keep_last_n]
        ELSE [dc |-> dc, cleaned |-> 0]

\* sn = None: every device that has a list
CommandManager_cleanup_completed_commands(cm, sn, keep_last_n) ==
    LET devices_to_clean == IF sn # None /\ sn # "" THEN {sn} ELSE DOMAIN cm.device_commands
        RECURSIVE clean(_, _)
        clean(dc, todo) ==
            IF todo = {} THEN [dc |-> dc, cleaned |-> 0]
            ELSE LET s == CHOOSE x \in todo : TRUE
                     one == CleanupOne(dc, s, keep_last_n)
                     others == clean(one.dc, todo \ {s})
                 IN  [dc |-> others.dc, cleaned |-> one.cleaned + others.cleaned]
        done == clean(cm.device_commands, devices_to_clean)
    IN  [cm |-> [cm EXCEPT !.device_commands = done.dc], out |-> done.cleaned]

-----------------------------------------------------------------------------
\* Calls of the CommandManager singleton

EmptySN == ""
CMKeys == SerialNumbers \cup {EmptySN}
TheManager == CommandManager(device_commands, device_seq)

SetManager(cm) ==
    /\ device_commands' = cm.device_commands
    /\ device_seq' = cm.device_seq

cm_queue_command(sn, command_text) ==
    LET r == CommandManager_queue_command(TheManager, sn, command_text, now) IN
    /\ TotalIssued < MaxCommands
    /\ SetManager(r.cm)
    /\ cm_issued' = [cm_issued EXCEPT ![sn] = Append(@, r.out.id)]
    /\ ret' = Returned("cm_queue_command", sn, TRUE, << >>, <<r.out>>)
    /\ UNCHANGED <<now, last_attlog>>
    /\ DeviceUnchanged
    /\ UNCHANGED <<heartbeats, enqueues>>

cm_get_pending_commands(sn) ==
    LET r == CommandManager_get_pending_commands(TheManager, sn, now) IN
    /\ SetManager(r.cm)
    /\ ret' = Drained("cm_get_pending_commands", sn, << >>, r.out)
    /\ UNCHANGED <<now, last_attlog, cm_issued>>
    /\ DeviceUnchanged
    /\ UNCHANGED <<heartbeats, enqueues>>

cm_acknowledge_command(sn, command_id, device_ack) ==
    LET r == CommandManager_acknowledge_command(TheManager, sn, command_id, device_ack, now) IN
    /\ SetManager(r.cm)
    /\ ret' = Returned("cm_acknowledge_command", sn, r.out, << >>, r.done)
    /\ UNCHANGED <<now, last_attlog, cm_issued>>
    /\ DeviceUnchanged
    /\ UNCHANGED <<heartbeats, enqueues>>

cm_cleanup_completed_commands(sn, keep_last_n) ==
    LET r == CommandManager_cleanup_completed_commands(TheManager, sn, keep_last_n) IN
    /\ SetManager(r.cm)
    /\ ret' = Returned("cm_cleanup_completed_commands", sn, TRUE, str(r.out), << >>)
    /\ UNCHANGED <<now, last_attlog, cm_issued>>
    /\ DeviceUnchanged
    /\ UNCHANGED <<heartbeats, enqueues>>

-----------------------------------------------------------------------------
\* app/routers/push_api.py

\* GET /getrequest.aspx; SN = None when the query has no SN parameter
\* variant: the log pull is due at every heartbeat
attlog_due_always(t, last) == TRUE

\* datetime.now() - last_attlog > timedelta(minutes=ATTLOG_FREQUENCY_MINUTES)
attlog_due(t, last) == t - last > ATTLOG_FREQUENCY_MINUTES

get_request(SN) ==
    LET pull == attlog_due(now, last_attlog) /\ SN # None
        q == CommandManager_queue_command(TheManager, SN, QUERY_ATTLOG, now)
        cm1 == IF pull THEN q.cm ELSE TheManager
        r == CommandManager_get_pending_commands(cm1, SN, now)
    IN
    /\ pull => TotalIssued < MaxCommands
    /\ last_attlog' = IF pull THEN now ELSE last_attlog
    /\ cm_issued' = IF pull THEN [cm_issued EXCEPT ![SN] = Append(@, q.out.id)]
                    ELSE cm_issued
    /\ IF SN # None /\ SN # EmptySN
       THEN /\ SetManager(r.cm)
            /\ ret' = Drained("get_request", SN,
                              IF Len(r.out) > 0
                              THEN JoinLines([i \in 1..Len(r.out) |->
                                       WireLine(str(r.out[i].id), r.out[i].command)])
                              ELSE ACK,
                              r.out)
       ELSE /\ SetManager(cm1)
            /\ ret' = Drained("get_request", SN, ACK, << >>)
    /\ UNCHANGED now
    /\ DeviceUnchanged
    /\ UNCHANGED <<heartbeats, enqueues>>

\* parse_qs reads the whole body as one query string: a line break is not a
\* separator, so the last parameter of a line absorbs the first of the next.
KeyChars(k) ==
    CASE k = "ID" -> <<"I", "D">>
      [] k = "Return" -> <<"R", "e", "t", "u", "r", "n">>
      [] k = "CMD" -> <<"C", "M", "D">>
      [] OTHER -> << >>

RawParam(p) == IF p.key = NoKey THEN p.value ELSE KeyChars(p.key) \o <<"=">> \o p.value

Absorb(p1, p2) ==
    IF p1.key # NoKey THEN Param(p1.key, p1.value \o <<"\n">> \o RawParam(p2))
    ELSE IF p2.key # NoKey THEN Param("Other", p2.value)
    ELSE Param(NoKey, p1.value \o <<"\n">> \o p2.value)

RECURSIVE QueryParams(_)
QueryParams(body) ==
    IF Len(body) = 0 THEN << >>
    ELSE IF Len(body) = 1 THEN body[1]
    ELSE LET front == QueryParams(SubSeq(body, 1, Len(body) - 1))
             line == body[Len(body)]
         IN  SubSeq(front, 1, Len(front) - 1)
             \o <<Absorb(front[Len(front)], line[1])>> \o Tail(line)

\* body_data.get(k): the first value parse_qs holds for k (blank values dropped)
FirstValue(params, k) ==
    LET idx == { i \in 1..Len(params) : params[i].key = k /\ Len(params[i].value) > 0 } IN
    IF idx = {} THEN << >>
    ELSE params[CHOOSE i \in idx : \A j \in idx : i <= j].value

\* POST /devicecmd.aspx; SN = "" when the query has no SN parameter
device_command_post(SN, body) ==
    LET params == QueryParams(body)
        has_eq == \E i \in 1..Len(params) : params[i].key # NoKey
        cmd_id == FirstValue(params, "ID")
        return_code == FirstValue(params, "Return")
        cmd_text == FirstValue(params, "CMD")
        device_ack == IF return_code = RETURN_CODE_SUCCESS THEN "OK" ELSE "ERR"
        r == CommandManager_acknowledge_command(TheManager, SN, int(cmd_id), device_ack, now)
    IN
    /\ IF /\ has_eq
          /\ SN # EmptySN /\ Len(cmd_id) > 0 /\ Len(cmd_text) > 0
          /\ IntParses(cmd_id)
       THEN SetManager(r.cm)
       ELSE UNCHANGED <<device_commands, device_seq>>
    /\ ret' = Returned("device_command_post", SN, TRUE, ACK, << >>)
    /\ UNCHANGED <<now, last_attlog, cm_issued>>
    /\ DeviceUnchanged
    /\ UNCHANGED <<heartbeats, enqueues>>

-----------------------------------------------------------------------------
\* The clock

\* variant: a clock that gives up on the commands still in status sent
Tick_expires_sent ==
    /\ now < MaxTime
    /\ now' = now + 1
    /\ device_registry' =
          [sn \in DOMAIN device_registry |->
             [device_registry[sn] EXCEPT !.adms_queue.commands =
                [k \in 1..Len(@) |-> IF @[k].status = "sent"
                                     THEN [@[k] EXCEPT !.status = "failed"]
                                     ELSE @[k]]]]
    /\ UNCHANGED <<device_commands, device_seq, last_attlog, ret,
                   issued, cm_issued, heartbeats, enqueues>>

Tick ==
    /\ now < MaxTime
    /\ now' = now + 1
    /\ UNCHANGED <<device_registry, device_commands, device_seq, last_attlog, ret,
                   issued, cm_issued, heartbeats, enqueues>>

-----------------------------------------------------------------------------
\* Specification

\* two threads that can each run one call of get_commands
Handlers == {"h1", "h2"}

\* the locals of a call of get_commands: where it stands, its sn, and whether
\* the Device in existing_machine is an object of its own, not the registered one
\* start: how many commands the queue of sn had issued when the call began;
\* raced: the commands issued after that which the last finished call delivered
NoHeartbeat ==
    [pc |-> "idle", sn |-> None, own_object |-> FALSE, start |-> 0, raced |-> {}]

\* two threads that can each run one call of add_command; seq is the counter
\* value the call has read, id the id it goes on with
Enqueuers == {"e1", "e2"}
NoEnqueue == [pc |-> "idle", sn |-> None, seq |-> 0, id |-> << >>, command |-> << >>]

Init ==
    /\ now = 0
    /\ device_registry = << >>
    /\ device_commands = << >>
    /\ device_seq = << >>
    /\ last_attlog = 0 - INITIAL_ATTLOG_AGE
    /\ ret = Returned("init", None, TRUE, << >>, << >>)
    /\ issued = [sn \in SerialNumbers |-> << >>]
    /\ cm_issued = [sn \in CMKeys |-> << >>]
    /\ heartbeats = [h \in Handlers |-> NoHeartbeat]
    /\ enqueues = [e \in Enqueuers |-> NoEnqueue]

\* lists of ids for mark_commands_sent: one id, or two in issue order
IdLists == { <<str(i)>> : i \in AckNumbers }
           \cup { <<str(p[1]), str(p[2])>> :
                    p \in { q \in AckNumbers \X AckNumbers : q[1] < q[2] } }

\* zk.connect() succeeds or fails; the outcome is drawn only where the lookup
\* of sn can attempt a connection (the device is not in mode 'adms')
ConnectOutcomes(sn) ==
    IF sn \in DOMAIN device_registry /\ device_registry[sn].connection_mode # "adms"
    THEN BOOLEAN ELSE {FALSE}
DeviceAcks == {"OK", "ERR"}

\* the calls of the Device/ADMSQueue path, heartbeats carrying a token of infos
DeviceCalls(infos) ==
    \/ \E sn \in SerialNumbers, info \in infos, can_connect \in BOOLEAN :
          \E connect_ok \in ConnectOutcomes(sn) :
             get_commands(sn, info, can_connect, connect_ok)
    \/ \E sn \in SerialNumbers, body \in AckBodies :
          \E connect_ok \in ConnectOutcomes(sn) : ack_command(sn, body, connect_ok)
    \/ \E sn \in SerialNumbers, ids \in IdLists : mark_commands_sent(sn, ids)
    \/ \E sn \in SerialNumbers, text \in CommandTexts :
          \E connect_ok \in ConnectOutcomes(sn) : queue_command(sn, text, connect_ok)
    \/ \E sn \in SerialNumbers \cup {None}, n \in 1..MaxKeep :
          \E connect_ok \in ConnectOutcomes(sn) : cleanup_commands(sn, n, connect_ok)

DeviceNext == DeviceCalls(InfoTokens)

\* heartbeats without INFO, or with one that does not parse
QueueNext == DeviceCalls({ i \in InfoTokens : ~i.present \/ parse_info_raises(i) })

ManagerNext ==
    \/ \E sn \in SerialNumbers, text \in CommandTexts : cm_queue_command(sn, text)
    \/ \E sn \in SerialNumbers : cm_get_pending_commands(sn)
    \/ \E sn \in SerialNumbers, id \in AckNumbers, ack \in DeviceAcks :
          cm_acknowledge_command(sn, id, ack)
    \/ \E sn \in SerialNumbers \cup {None}, n \in 0..MaxKeep :
          cm_cleanup_completed_commands(sn, n)
    \/ \E SN \in SerialNumbers \cup {None, EmptySN} : get_request(SN)
    \/ \E SN \in CMKeys, body \in AckBodies : device_command_post(SN, body)

\* The two command paths share no variable but the clock and ret: every call
\* of one path leaves the other path's dicts, queues and counters unchanged.
\* Spec therefore takes the calls of a path only while the other path's state
\* is still the initial one; ManagerSpec is the CommandManager path alone.
DeviceUntouched == device_registry = << >>
ManagerUntouched ==
    /\ device_commands = << >>
    /\ device_seq = << >>
    /\ last_attlog = 0 - INITIAL_ATTLOG_AGE

Next ==
    \/ Tick
    \/ ManagerUntouched /\ DeviceNext
    \/ DeviceUntouched /\ ManagerNext

Spec == Init /\ [][Next]_vars

\* Spec without the heartbeats whose INFO parses: these set ip and info of the
\* Device and touch neither the queue nor the response.
QueueSpec ==
    Init /\ [][Tick \/ (ManagerUntouched /\ QueueNext) \/ (DeviceUntouched /\ ManagerNext)]_vars

ManagerSpec == Init /\ [][Tick \/ ManagerNext]_vars

\* Cleanup applied to the queues the calls can build. A queue is built with
\* the operations themselves: commands are added, then each one is left
\* pending, marked sent, or acknowledged (with or without having been sent) at
\* some earlier time. A CommandManager list is built by queueing, draining and
\* queueing again.
CommandPlans == [sent : BOOLEAN, acked_at : {NoTime} \cup 0..MaxTime]
PlanSeqs == UNION { [1..n -> CommandPlans] : n \in 0..(MaxCommands + 1) }
SomeText == CHOOSE text \in CommandTexts : TRUE

RECURSIVE Enqueued(_, _)
Enqueued(q, n) == IF n = 0 THEN q ELSE add_command(Enqueued(q, n - 1), SomeText, 0)

RECURSIVE Marked(_, _, _)
Marked(q, plan, k) ==
    IF k > Len(plan) THEN q
    ELSE LET id == q.commands[k].id
             q1 == IF plan[k].sent THEN mark_command_sent(q, id, 0) ELSE q
             q2 == IF plan[k].acked_at # NoTime
                   THEN mark_command_acked(q1, id, RETURN_CODE_SUCCESS, plan[k].acked_at)
                   ELSE q1
         IN  Marked(q2, plan, k + 1)

BuiltQueue(plan) == Marked(Enqueued(Device("SN1").adms_queue, Len(plan)), plan, 1)

RECURSIVE ManagerQueued(_, _)
ManagerQueued(cm, n) ==
    IF n = 0 THEN cm
    ELSE CommandManager_queue_command(ManagerQueued(cm, n - 1), "SN1", SomeText, 0).cm

BuiltManager(a, b) ==
    ManagerQueued(
        CommandManager_get_pending_commands(
            ManagerQueued(CommandManager(<< >>, << >>), a), "SN1", 0).cm, b)

CleanupInit ==
    /\ now = MaxTime
    /\ heartbeats = [h \in Handlers |-> NoHeartbeat]
    /\ enqueues = [e \in Enqueuers |-> NoEnqueue]
    /\ last_attlog = 0 - INITIAL_ATTLOG_AGE
    /\ ret = Returned("init", None, TRUE, << >>, << >>)
    /\ \/ /\ \E plan \in PlanSeqs :
                LET q == BuiltQueue(plan) IN
                /\ device_registry = ("SN1" :> [Device("SN1") EXCEPT !.adms_queue = q])
                /\ issued = [sn \in SerialNumbers |->
                               IF sn = "SN1" THEN [i \in 1..Len(q.commands) |-> q.commands[i].id]
                               ELSE << >>]
          /\ device_commands = << >>
          /\ device_seq = << >>
          /\ cm_issued = [sn \in CMKeys |-> << >>]
       \/ /\ \E a \in 0..(MaxCommands + 1) : \E b \in 0..(MaxCommands + 1 - a) :
                LET cm == BuiltManager(a, b) IN
                /\ a + b > 0
                /\ device_commands = cm.device_commands
                /\ device_seq = cm.device_seq
                /\ cm_issued = [sn \in CMKeys |->
                                  IF sn = "SN1" THEN [i \in 1..(a + b) |-> i] ELSE << >>]
          /\ device_registry = << >>
          /\ issued = [sn \in SerialNumbers |-> << >>]

CleanupNext ==
    \/ \E sn \in SerialNumbers \cup {None}, n \in 1..MaxKeep :
          \E connect_ok \in ConnectOutcomes(sn) : cleanup_commands(sn, n, connect_ok)
    \/ \E sn \in SerialNumbers \cup {None}, n \in 0..MaxKeep :
          cm_cleanup_completed_commands(sn, n)

CleanupSpec == CleanupInit /\ [][CleanupNext]_vars

-----------------------------------------------------------------------------
\* PollingService.get_commands run by two threads. get_commands holds no lock,
\* so a thread can be preempted between the lookup, the registration and the
\* flush; a heartbeat here carries no INFO.

\* existing_machine = device_manager.get_device(sn)
get_commands_lookup(h, sn, connect_ok) ==
    LET reg1 == get_device(device_registry, sn, connect_ok) IN
    /\ heartbeats[h].pc = "idle"
    /\ device_registry' = reg1
    /\ heartbeats' = [heartbeats EXCEPT ![h] =
                        [pc |-> IF sn \in DOMAIN reg1 THEN "flush" ELSE "create",
                         sn |-> sn, own_object |-> FALSE,
                         start |-> Len(issued[sn]), raced |-> heartbeats[h].raced]]
    /\ UNCHANGED <<now, ret, issued, enqueues>>
    /\ CMUnchanged

\* existing_machine = Device(sn=sn); device_manager.add_device(existing_machine):
\* add_device keeps the Device the registry already holds for sn
get_commands_create(h) ==
    LET sn == heartbeats[h].sn IN
    /\ heartbeats[h].pc = "create"
    /\ device_registry' = add_device(device_registry, Device(sn))
    /\ heartbeats' = [heartbeats EXCEPT ![h] =
                        [pc |-> "flush", sn |-> sn,
                         own_object |-> sn \in DOMAIN device_registry,
                         start |-> heartbeats[h].start, raced |-> heartbeats[h].raced]]
    /\ UNCHANGED <<now, ret, issued, enqueues>>
    /\ CMUnchanged

\* pending_commands = existing_machine.get_pending_commands() and the response
get_commands_flush(h) ==
    LET sn == heartbeats[h].sn
        existing_machine == IF heartbeats[h].own_object THEN Device(sn)
                            ELSE device_registry[sn]
        pending_commands == get_pending_commands(existing_machine.adms_queue)
        late == { issued[sn][i] : i \in (heartbeats[h].start + 1)..Len(issued[sn]) }
    IN
    /\ heartbeats[h].pc = "flush"
    /\ ret' = Drained("get_commands", sn,
                      IF Len(pending_commands) > 0
                      THEN CommandText(pending_commands) ELSE ACK,
                      pending_commands)
    /\ heartbeats' = [heartbeats EXCEPT ![h] =
                        [NoHeartbeat EXCEPT !.raced =
                           { [sn |-> sn, id |-> id] : id \in late \cap IdsOf(pending_commands) }]]
    /\ UNCHANGED <<now, device_registry, issued, enqueues>>
    /\ CMUnchanged

ThreadsNext ==
    \/ Tick
    \/ \E h \in Handlers, sn \in SerialNumbers :
          \E connect_ok \in ConnectOutcomes(sn) : get_commands_lookup(h, sn, connect_ok)
    \/ \E h \in Handlers : get_commands_create(h)
    \/ \E h \in Handlers : get_commands_flush(h)
    \/ \E sn \in SerialNumbers, text \in CommandTexts :
          \E connect_ok \in ConnectOutcomes(sn) : queue_command(sn, text, connect_ok)

ThreadsSpec == Init /\ [][ThreadsNext]_vars

-----------------------------------------------------------------------------
\* The direct (socket) session of a Device: app/utils/device.py and the routes
\* of app/routers/actions.py and app/routers/stats.py. Every route looks the
\* Device up with device_manager.get_device first.

SHUTDOWN == <<"S", "H", "U", "T", "D", "O", "W", "N">>
QUERY_ALL_USERS == <<"D", "A", "T", "A", " ", "Q", "U", "E", "R", "Y", " ",
                     "U", "S", "E", "R", "I", "N", "F", "O", " ", "*">>

\* Device.restart, poweroff and sync_users: without a session the command is
\* queued; with one the zk call is made inside try/except, and an exception
\* (zk_ok = FALSE) is logged and nothing else happens
QueueOrCall(d, command, zk_ok, t) ==
    LET d1 == is_socket_mode(d) IN
    IF ~d1.socket_mode
    THEN [d1 EXCEPT !.adms_queue = add_command(d1.adms_queue, command, t)]
    ELSE d1

\* variant: the user sync queued as a restart
sync_users_as_restart(d, zk_ok, t) == QueueOrCall(d, REBOOT, zk_ok, t)

restart(d, zk_ok, t) == QueueOrCall(d, REBOOT, zk_ok, t)
poweroff(d, zk_ok, t) == QueueOrCall(d, SHUTDOWN, zk_ok, t)
sync_users(d, zk_ok, t) == QueueOrCall(d, QUERY_ALL_USERS, zk_ok, t)

\* DeviceStats: the seven counters, as the zk object holds them or all zero
StatFields == <<"users", "fingers", "faces", "cards", "records", "users_cap", "fingers_cap">>
ZeroStats == [i \in DOMAIN StatFields |-> "0"]
HeldStats == [i \in DOMAIN StatFields |-> "1"]

\* Device.get_stats: ConnectionError without a session; with one, the counters
\* read from zk, or zeros when the read raises (read_ok = FALSE)
get_stats(d, connect_ok, read_ok) ==
    LET d1 == is_socket_mode(set_socket_mode(d, TRUE, FALSE, connect_ok)) IN
    [d |-> d1,
     raised |-> ~d1.socket_mode,
     stats |-> IF ~d1.socket_mode THEN << >>
               ELSE IF read_ok THEN HeldStats ELSE ZeroStats]

\* the end of a route that called a Device method: d is the Device afterwards
Finished(op, sn, reg1, d, ok, body) ==
    LET before == reg1[sn].adms_queue.commands
        after == d.adms_queue.commands
    IN
    /\ Len(after) > Len(before) => TotalIssued < MaxCommands
    /\ device_registry' = [reg1 EXCEPT ![sn] = d]
    /\ issued' = IF Len(after) > Len(before)
                 THEN [issued EXCEPT ![sn] = Append(@, after[Len(after)].id)]
                 ELSE issued
    /\ ret' = Returned(op, sn, ok, body, << >>)

\* HTTP 404: the lookup found no Device
NotFound(op, sn, reg1) ==
    /\ device_registry' = reg1
    /\ UNCHANGED issued
    /\ ret' = Returned(op, sn, FALSE, << >>, << >>)

restart_device(device_sn, connect_ok, zk_ok) ==
    LET reg1 == get_device(device_registry, device_sn, connect_ok) IN
    /\ UNCHANGED <<now, heartbeats, enqueues>>
    /\ CMUnchanged
    /\ IF device_sn \notin DOMAIN reg1 THEN NotFound("restart_device", device_sn, reg1)
       ELSE Finished("restart_device", device_sn, reg1,
                     restart(reg1[device_sn], zk_ok, now), TRUE, << >>)

poweroff_device(device_sn, connect_ok, zk_ok) ==
    LET reg1 == get_device(device_registry, device_sn, connect_ok) IN
    /\ UNCHANGED <<now, heartbeats, enqueues>>
    /\ CMUnchanged
    /\ IF device_sn \notin DOMAIN reg1 THEN NotFound("poweroff_device", device_sn, reg1)
       ELSE Finished("poweroff_device", device_sn, reg1,
                     poweroff(reg1[device_sn], zk_ok, now), TRUE, << >>)

actions_sync_users(device_sn, connect_ok, zk_ok) ==
    LET reg1 == get_device(device_registry, device_sn, connect_ok) IN
    /\ UNCHANGED <<now, heartbeats, enqueues>>
    /\ CMUnchanged
    /\ IF device_sn \notin DOMAIN reg1 THEN NotFound("sync_users", device_sn, reg1)
       ELSE Finished("sync_users", device_sn, reg1,
                     sync_users(reg1[device_sn], zk_ok, now), TRUE, << >>)

get_socket_status(device_sn, connect_ok) ==
    LET reg1 == get_device(device_registry, device_sn, connect_ok) IN
    /\ UNCHANGED <<now, heartbeats, enqueues>>
    /\ CMUnchanged
    /\ IF device_sn \notin DOMAIN reg1 THEN NotFound("get_socket_status", device_sn, reg1)
       ELSE Finished("get_socket_status", device_sn, reg1,
                     is_socket_mode(reg1[device_sn]), TRUE, << >>)

\* POST set-socket-mode: reconnect_ok is the outcome of the connect attempt of
\* device.set_socket_mode, connect_ok that of the lookup before it
actions_set_socket_mode(device_sn, is_on, force, connect_ok, reconnect_ok) ==
    LET reg1 == get_device(device_registry, device_sn, connect_ok) IN
    /\ UNCHANGED <<now, heartbeats, enqueues>>
    /\ CMUnchanged
    /\ IF device_sn \notin DOMAIN reg1 THEN NotFound("set_socket_mode", device_sn, reg1)
       ELSE Finished("set_socket_mode", device_sn, reg1,
                     is_socket_mode(set_socket_mode(reg1[device_sn], is_on, force,
                                                    reconnect_ok)),
                     TRUE, << >>)

\* GET stats: ConnectionError becomes HTTP 503
get_device_stats(device_sn, connect_ok, reconnect_ok, read_ok) ==
    LET reg1 == get_device(device_registry, device_sn, connect_ok) IN
    /\ UNCHANGED <<now, heartbeats, enqueues>>
    /\ CMUnchanged
    /\ IF device_sn \notin DOMAIN reg1 THEN NotFound("get_device_stats", device_sn, reg1)
       ELSE LET r == get_stats(reg1[device_sn], reconnect_ok, read_ok) IN
            Finished("get_device_stats", device_sn, reg1, r.d, ~r.raised, r.stats)

\* Device.__init__ takes the connection mode as a parameter: the Devices of
\* SessionSpec are constructed in either mode, with no session yet
DeviceModes == {"adms", "socket+adms"}

SessionInit ==
    /\ now = 0
    /\ device_commands = << >>
    /\ device_seq = << >>
    /\ last_attlog = 0 - INITIAL_ATTLOG_AGE
    /\ ret = Returned("init", None, TRUE, << >>, << >>)
    /\ issued = [sn \in SerialNumbers |-> << >>]
    /\ cm_issued = [sn \in CMKeys |-> << >>]
    /\ heartbeats = [h \in Handlers |-> NoHeartbeat]
    /\ enqueues = [e \in Enqueuers |-> NoEnqueue]
    /\ \E S \in SUBSET SerialNumbers : \E modes \in [S -> DeviceModes] :
          device_registry = [sn \in S |-> [Device(sn) EXCEPT !.connection_mode = modes[sn]]]

SessionNext ==
    \/ Tick
    \/ \E sn \in SerialNumbers, info \in InfoTokens, can_connect \in BOOLEAN :
          \E connect_ok \in ConnectOutcomes(sn) :
             get_commands(sn, info, can_connect, connect_ok)
    \/ \E sn \in SerialNumbers, zk_ok \in BOOLEAN :
          \E connect_ok \in ConnectOutcomes(sn) : restart_device(sn, connect_ok, zk_ok)
    \/ \E sn \in SerialNumbers, zk_ok \in BOOLEAN :
          \E connect_ok \in ConnectOutcomes(sn) : poweroff_device(sn, connect_ok, zk_ok)
    \/ \E sn \in SerialNumbers, zk_ok \in BOOLEAN :
          \E connect_ok \in ConnectOutcomes(sn) : actions_sync_users(sn, connect_ok, zk_ok)
    \/ \E sn \in SerialNumbers :
          \E connect_ok \in ConnectOutcomes(sn) : get_socket_status(sn, connect_ok)
    \/ \E sn \in SerialNumbers, is_on \in BOOLEAN, force \in BOOLEAN, reconnect_ok \in BOOLEAN :
          \E connect_ok \in ConnectOutcomes(sn) :
             actions_set_socket_mode(sn, is_on, force, connect_ok, reconnect_ok)
    \/ \E sn \in SerialNumbers, reconnect_ok \in BOOLEAN, read_ok \in BOOLEAN :
          \E connect_ok \in ConnectOutcomes(sn) :
             get_device_stats(sn, connect_ok, reconnect_ok, read_ok)

SessionSpec == SessionInit /\ [][SessionNext]_vars

-----------------------------------------------------------------------------
\* The heartbeats of GET /getrequest.aspx over a time longer than the log-pull
\* interval

PullHorizon == 7

Elapse ==
    /\ now < PullHorizon
    /\ now' = now + 1
    /\ UNCHANGED <<device_registry, device_commands, device_seq, last_attlog, ret,
                   issued, cm_issued, heartbeats, enqueues>>

PullNext ==
    \/ Elapse
    \/ \E SN \in SerialNumbers \cup {None, EmptySN} : get_request(SN)
    \/ \E sn \in SerialNumbers : cm_get_pending_commands(sn)
    \/ \E sn \in SerialNumbers, id \in AckNumbers, ack \in DeviceAcks :
          cm_acknowledge_command(sn, id, ack)

PullSpec == Init /\ [][PullNext]_vars

-----------------------------------------------------------------------------
\* What the terminal does with a response: cut it into newline-terminated
\* lines and split each line at its first two colons.

FirstIndex(text, c) ==
    IF \E i \in 1..Len(text) : text[i] = c
    THEN CHOOSE i \in 1..Len(text) : text[i] = c /\ \A j \in 1..(i - 1) : text[j] # c
    ELSE 0

RECURSIVE SplitLines(_)
SplitLines(text) ==
    IF Len(text) = 0 THEN << >>
    ELSE LET nl == FirstIndex(text, "\n") IN
         IF nl = 0 THEN <<text>>
         ELSE <<SubSeq(text, 1, nl - 1)>> \o SplitLines(SubSeq(text, nl + 1, Len(text)))

SplitAtTwoColons(line) ==
    LET c1 == FirstIndex(line, ":")
        rest == SubSeq(line, c1 + 1, Len(line))
        c2 == FirstIndex(rest, ":")
    IN  [head |-> SubSeq(line, 1, c1 - 1),
         id |-> SubSeq(rest, 1, c2 - 1),
         text |-> SubSeq(rest, c2 + 1, Len(rest))]

ParsedResponse(body) ==
    LET lines == SplitLines(body) IN
    [i \in 1..Len(lines) |-> SplitAtTwoColons(lines[i])]

StrictlyIncreasing(seq) ==
    \A i \in 1..Len(seq) : \A j \in 1..Len(seq) : i < j => seq[i] < seq[j]

QueueOf(sn) == device_registry[sn].adms_queue.commands
ListOf(sn) == Get(device_commands, sn, << >>)

-----------------------------------------------------------------------------
C2_SecondHeartbeatAnswersOK ==
    (ret.op = "get_commands" /\ ret.repeat) => ret.body = ACK

\* C3: right after PollingService.get_commands answered, every command whose
\* line is in the response has status sent and a sent_at.
C3_DeliveredCommandsAreSent ==
    (ret.op = "get_commands" /\ ret.ok) =>
        LET lines == SplitLines(ret.body) IN
        \A i \in 1..Len(QueueOf(ret.sn)) :
            LET c == QueueOf(ret.sn)[i] IN
            (\E k \in 1..Len(lines) : lines[k] = WireLine(c.id, c.command))
                => c.status = "sent" /\ c.sent_at # NoTime

\* C4: CommandManager.get_pending_commands directly repeated for a serial
\* number returns the empty list, and every command a drain returns (to its
\* caller or to GET /getrequest.aspx) is in the list with status sent and sentAt.
C4_ManagerDrainMarksSent ==
    /\ (ret.op \in {"cm_get_pending_commands", "get_request"}) =>
          \A i \in 1..Len(ret.cmds) :
              /\ ret.cmds[i].status = "sent"
              /\ ret.cmds[i].sentAt # NoTime
              /\ \E j \in 1..Len(ListOf(ret.sn)) : ListOf(ret.sn)[j] = ret.cmds[i]
    /\ (ret.op = "cm_get_pending_commands" /\ ret.repeat) => ret.cmds = << >>

\* the second of two successive drains, the first of which returned a command
C4_Witness ==
    /\ ret.op = "cm_get_pending_commands"
    /\ ret.repeat
    /\ \E j \in 1..Len(ListOf(ret.sn)) :
          ListOf(ret.sn)[j].status = "sent" /\ ListOf(ret.sn)[j].sentAt = now

AckStep(sn) == ret'.op = "ack_command" /\ ret'.sn = sn /\ now' = now

ManagerAckStep(sn) == ret'.op = "cm_acknowledge_command" /\ ret'.sn = sn /\ now' = now

\* C5: PollingService.ack_command changes no field of a command that is not in
\* status sent (pending, or already acked).
C5_AckChangesOnlySentCommands ==
    [][\A sn \in DOMAIN device_registry :
          AckStep(sn) =>
             \A i \in 1..Len(QueueOf(sn)) :
                 QueueOf(sn)[i].status # "sent" => QueueOf(sn)'[i] = QueueOf(sn)[i]]_vars

HasSent(sn, id) ==
    \E i \in 1..Len(ListOf(sn)) : ListOf(sn)[i].id = id /\ ListOf(sn)[i].status = "sent"

\* C6: CommandManager.acknowledge_command returns False and leaves every list
\* and every sequence counter unchanged when the serial number has no command
\* with that id in status sent.
C6_RejectedAckChangesNothing ==
    [][\A sn \in SerialNumbers, id \in AckNumbers, ack \in DeviceAcks :
          (ManagerAckStep(sn) /\ ~HasSent(sn, id) /\ cm_acknowledge_command(sn, id, ack)) =>
             /\ ret'.ok = FALSE
             /\ device_commands' = device_commands
             /\ device_seq' = device_seq]_vars

\* an acknowledgment was rejected for a serial number that holds a pending command
C6_Witness ==
    /\ ret.op = "cm_acknowledge_command"
    /\ ~ret.ok
    /\ \E i \in 1..Len(ListOf(ret.sn)) : ListOf(ret.sn)[i].status = "pending"

\* C7: PollingService.ack_command leaves the status, return_code and ack_at of
\* an already acknowledged command as the first acknowledgment set them.
C7_SecondAckIsNoOp ==
    [][\A sn \in DOMAIN device_registry :
          AckStep(sn) =>
             \A i \in 1..Len(QueueOf(sn)) :
                 QueueOf(sn)[i].status = "acked" =>
                    /\ QueueOf(sn)'[i].status = "acked"
                    /\ QueueOf(sn)'[i].return_code = QueueOf(sn)[i].return_code
                    /\ QueueOf(sn)'[i].ack_at = QueueOf(sn)[i].ack_at]_vars


SentIndex(sn, id) ==
    CHOOSE i \in 1..Len(ListOf(sn)) :
        /\ ListOf(sn)[i].id = id /\ ListOf(sn)[i].status = "sent"
        /\ \A j \in 1..(i - 1) : ~(ListOf(sn)[j].id = id /\ ListOf(sn)[j].status = "sent")

\* acknowledgment records that parse and name pairwise different ids
DistinctBodies ==
    { b \in AckBodies :
        /\ \A k \in 1..Len(b) : b[k] \in GoodLines
        /\ \A k \in 1..Len(b) : \A m \in 1..Len(b) : k # m => b[k][1].value # b[m][1].value }

C9_WireRoundTrip ==
    /\ (ret.op = "get_commands" /\ ret.ok /\ Len(ret.cmds) > 0) =>
          /\ ParsedResponse(ret.body) =
                [i \in 1..Len(ret.cmds) |->
                    [head |-> <<"C">>, id |-> ret.cmds[i].id, text |-> ret.cmds[i].command]]
          /\ \A i \in 1..Len(ret.cmds) :
                /\ \E k \in 1..Len(issued[ret.sn]) : issued[ret.sn][k] = ret.cmds[i].id
                /\ ret.cmds[i].command \in CommandTexts
    /\ (ret.op = "get_request" /\ Len(ret.cmds) > 0) =>
          LET parsed == ParsedResponse(ret.body) IN
          /\ Len(parsed) = Len(ret.cmds)
          /\ \A i \in 1..Len(ret.cmds) :
                /\ parsed[i].head = <<"C">>
                /\ IntParses(parsed[i].id)
                /\ int(parsed[i].id) = ret.cmds[i].id
                /\ parsed[i].text = ret.cmds[i].command
                /\ \E k \in 1..Len(cm_issued[ret.sn]) : cm_issued[ret.sn][k] = ret.cmds[i].id
                /\ ret.cmds[i].command \in CommandTexts \cup {QUERY_ATTLOG}

\* a heartbeat answered two commands, whose texts hold colons
C9_Witness ==
    /\ ret.op = "get_commands"
    /\ Len(ret.cmds) = 2
    /\ \A i \in 1..2 : FirstIndex(ret.cmds[i].command, ":") > 0

RECURSIVE ResponseLines(_)
ResponseLines(pairs) ==
    IF Len(pairs) = 0 THEN << >>
    ELSE <<"C", ":">> \o pairs[1][1] \o <<":">> \o pairs[1][2] \o <<"\n">>
         \o ResponseLines(Tail(pairs))

PendingOf(commands) == SelectSeq(commands, LAMBDA c : c.status = "pending")

IssueRank(hist, id) == CHOOSE k \in 1..Len(hist) : hist[k] = id

\* C10: a heartbeat response is one newline-terminated line C:<id>:<text> per
\* command that was pending when the heartbeat came (for GET /getrequest.aspx
\* also the log pull it enqueues itself), in the order of enqueueing, and
\* nothing else; with no pending command it is exactly OK.
C10_ResponseIsPendingLines ==
    [][/\ \A sn \in SerialNumbers :
             (ret'.op = "get_commands" /\ ret'.sn = sn /\ ret'.ok /\ now' = now) =>
                LET before == IF sn \in DOMAIN device_registry
                              THEN PendingOf(QueueOf(sn)) ELSE << >>
                IN  /\ ret'.body =
                          IF Len(before) = 0 THEN <<"O", "K">>
                          ELSE ResponseLines([i \in 1..Len(before) |->
                                                <<before[i].id, before[i].command>>])
                    /\ StrictlyIncreasing([i \in 1..Len(before) |->
                                             IssueRank(issued[sn], before[i].id)])
       /\ \A sn \in SerialNumbers :
             (ret'.op = "get_request" /\ ret'.sn = sn /\ now' = now) =>
                LET before == PendingOf(ListOf(sn))
                    pulled == Len(cm_issued'[sn]) > Len(cm_issued[sn])
                    all == [i \in 1..Len(before) |-> <<str(before[i].id), before[i].command>>]
                           \o (IF pulled
                               THEN <<<<str(cm_issued'[sn][Len(cm_issued'[sn])]), QUERY_ATTLOG>>>>
                               ELSE << >>)
                IN  /\ ret'.body = IF Len(all) = 0 THEN <<"O", "K">> ELSE ResponseLines(all)
                    /\ StrictlyIncreasing([i \in 1..Len(before) |->
                                             IssueRank(cm_issued[sn], before[i].id)])]_vars

\* GET /getrequest.aspx answered a queued command followed by its own log pull
C10_Witness ==
    /\ ret.op = "get_request"
    /\ Len(ret.cmds) = 2
    /\ ret.cmds[2].command = QUERY_ATTLOG
    /\ Len(SplitLines(ret.body)) = 2

AckedOf(commands) == SelectSeq(commands, LAMBDA c : c.status = "acked")
ActiveOf(commands) == SelectSeq(commands, LAMBDA c : c.status \in {"pending", "sent"})
Range(seq) == { seq[i] : i \in 1..Len(seq) }
Min(a, b) == IF a < b THEN a ELSE b

CleanupStep(sn) == ret'.op = "cleanup_commands" /\ ret'.sn = sn /\ ret'.ok

\* C11: a cleanup of a device with keep_last_n = N (N >= 1) leaves min(N, k)
\* acknowledged commands in its queue, k being the number before; they are
\* commands the queue held, and no removed one has a later ack_at than a kept one.
C11_CleanupKeepsLatestAcked ==
    [][\A sn \in DOMAIN device_registry, n \in 1..MaxKeep :
          (CleanupStep(sn) /\ \E connect_ok \in ConnectOutcomes(sn) :
                                 cleanup_commands(sn, n, connect_ok)) =>
             LET before == AckedOf(QueueOf(sn))
                 after == AckedOf(QueueOf(sn)')
             IN  /\ Len(after) = Min(n, Len(before))
                 /\ Range(after) \subseteq Range(before)
                 /\ \A r \in Range(before) \ Range(after) :
                       \A a \in Range(after) : r.ack_at <= a.ack_at]_vars

\* a cleanup removed a later-enqueued acknowledged command and kept an
\* earlier-enqueued one that was acknowledged last
C11_Witness ==
    /\ ret.op = "cleanup_commands" /\ ret.ok
    /\ ret.body # <<"0">>
    /\ \E i \in 1..Len(QueueOf(ret.sn)) : \E k \in 1..Len(issued[ret.sn]) :
          /\ QueueOf(ret.sn)[i].status = "acked"
          /\ QueueOf(ret.sn)[i].ack_at = MaxTime
          /\ int(issued[ret.sn][k]) > int(QueueOf(ret.sn)[i].id)
          /\ \A j \in 1..Len(QueueOf(ret.sn)) : QueueOf(ret.sn)[j].id # issued[ret.sn][k]

\* C12: a cleanup (of a Device queue, of the CommandManager lists) leaves the
\* pending and sent commands of every queue in place, with the same fields and
\* in the same order, whatever keep_last_n is.
C12_CleanupLeavesActiveCommands ==
    [][/\ ret'.op = "cleanup_commands" =>
             \A sn \in DOMAIN device_registry :
                /\ sn \in DOMAIN device_registry'
                /\ ActiveOf(QueueOf(sn)') = ActiveOf(QueueOf(sn))
       /\ ret'.op = "cm_cleanup_completed_commands" =>
             \A sn \in CMKeys : ActiveOf(ListOf(sn)') = ActiveOf(ListOf(sn))]_vars

\* a cleanup removed an acknowledged command from a queue that holds a pending
\* or sent command, which is still there
C12_Witness ==
    /\ ret.op = "cleanup_commands" /\ ret.ok
    /\ ret.body # <<"0">>
    /\ \E i \in 1..Len(QueueOf(ret.sn)) : QueueOf(ret.sn)[i].status \in {"pending", "sent"}

HeartbeatStep(sn) == ret'.op = "get_commands" /\ ret'.sn = sn /\ now' = now

\* C13: a heartbeat (PollingService.get_commands) for a serial number that is
\* not in the registry adds exactly that serial number to the registry, with a
\* Device of that serial number in mode adms and with an empty queue, and
\* leaves the registered devices as they are.
C13_HeartbeatRegistersDevice ==
    [][\A sn \in SerialNumbers :
          (HeartbeatStep(sn) /\ sn \notin DOMAIN device_registry) =>
             /\ DOMAIN device_registry' = DOMAIN device_registry \cup {sn}
             /\ device_registry'[sn].sn = sn
             /\ device_registry'[sn].connection_mode = "adms"
             /\ device_registry'[sn].adms_queue.commands = << >>
             /\ \A other \in DOMAIN device_registry :
                   device_registry'[other] = device_registry[other]]_vars

\* a heartbeat was answered for a serial number that has no command yet, next
\* to a registered device that has one
C13_Witness ==
    /\ ret.op = "get_commands"
    /\ ret.sn \in DOMAIN device_registry
    /\ issued[ret.sn] = << >>
    /\ \E other \in DOMAIN device_registry : other # ret.sn /\ Len(QueueOf(other)) > 0

\* C14: the first command enqueued for a device gets id 1: a heartbeat of a
\* device whose queue holds just its first command, pending, answers C:1:<text>
\* and one newline.
C14_FirstCommandHasIdOne ==
    (/\ ret.op = "get_commands" /\ ret.ok
     /\ Len(issued[ret.sn]) = 1
     /\ Len(QueueOf(ret.sn)) = 1
     /\ QueueOf(ret.sn)[1].status = "pending")
    => ret.body = <<"C", ":", "1", ":">> \o QueueOf(ret.sn)[1].command \o <<"\n">>


-----------------------------------------------------------------------------
\* C15: a heartbeat that carries no serial number (SN absent, or SN empty) is
\* answered without changing any state: no Device and no command list is
\* created, no command is queued, no id counter advances and the time of the
\* last log pull stays as it was.
AnonymousHeartbeatStep ==
    ret'.op = "get_request" /\ ret'.sn \in {None, EmptySN} /\ now' = now

C15_AnonymousHeartbeatChangesNothing ==
    [][AnonymousHeartbeatStep =>
         UNCHANGED <<device_registry, issued, device_commands, device_seq,
                     last_attlog, cm_issued>>]_vars

\* C16: a heartbeat always gets its answer, the pending commands of the device
\* or OK, whether or not its INFO parses.
C16_HeartbeatAlwaysAnswers ==
    ret.op = "get_commands" =>
        /\ ret.ok
        /\ ret.body = (IF Len(ret.cmds) > 0 THEN CommandText(ret.cmds) ELSE ACK)


\* C17: every acknowledgment call, PollingService.ack_command and POST
\* /devicecmd.aspx alike, answers exactly OK, whatever the serial number and the
\* body are.
C17_AckAlwaysAnswersOK ==
    ret.op \in {"ack_command", "device_command_post"} =>
        ret.ok /\ ret.body = <<"O", "K">>

C17_Witness ==
    /\ ret.op = "device_command_post"
    /\ ret.sn \notin DOMAIN device_commands
    /\ \E sn \in DOMAIN device_commands :
          \E k \in 1..Len(ListOf(sn)) : ListOf(sn)[k].status = "sent"

\* C18: an acknowledgment from a serial number that is not registered changes
\* nothing: no Device and no command list is created for it, and no command of
\* another device changes.
PostStep(sn) == ret'.op = "device_command_post" /\ ret'.sn = sn /\ now' = now

C18_UnknownSerialAckChangesNothing ==
    [][\A sn \in CMKeys :
         /\ (AckStep(sn) /\ sn \notin DOMAIN device_registry) =>
               UNCHANGED <<device_registry, issued, device_commands, device_seq,
                           last_attlog, cm_issued>>
         /\ ((ManagerAckStep(sn) \/ PostStep(sn)) /\ sn \notin DOMAIN device_commands) =>
               UNCHANGED <<device_registry, issued, device_commands, device_seq,
                           last_attlog, cm_issued>>]_vars

C18_Witness ==
    /\ ret.op = "ack_command"
    /\ ret.sn \notin DOMAIN device_registry
    /\ \E sn \in DOMAIN device_registry :
          \E k \in 1..Len(QueueOf(sn)) : QueueOf(sn)[k].status = "sent"


\* C19: an acknowledgment record whose ID is empty, not alphanumeric or longer
\* than 16 characters is discarded: POST /devicecmd.aspx with such a record
\* changes no command.
C19_InvalidIdRecordIsDiscarded ==
    [][\A sn \in SerialNumbers :
         PostStep(sn) =>
            \A l \in InvalidIdLines :
               device_command_post(sn, <<l>>) => UNCHANGED <<device_commands, device_seq>>]_vars


\* C20: in every reachable state every command of every ADMSQueue has sent_at
\* set exactly when its status is sent or acked, and return_code and ack_at set
\* exactly when its status is acked.
C20_FieldsFollowStatus ==
    \A sn \in DOMAIN device_registry :
       \A k \in 1..Len(QueueOf(sn)) :
          LET c == QueueOf(sn)[k] IN
          /\ (c.sent_at # NoTime) <=> (c.status \in {"sent", "acked"})
          /\ (c.return_code # None) <=> (c.status = "acked")
          /\ (c.ack_at # NoTime) <=> (c.status = "acked")


-----------------------------------------------------------------------------
\* C21: the clock never goes back, and every command of every queue has
\* queued_at <= sent_at <= ack_at for the timestamps that are set, in whatever
\* order the queue's mark-sent and mark-acked operations were called.
InOrder(t1, t2) == (t1 # NoTime /\ t2 # NoTime) => t1 <= t2

C21_TimestampsInLifecycleOrder ==
    /\ \A sn \in DOMAIN device_registry :
          \A k \in 1..Len(QueueOf(sn)) :
             LET c == QueueOf(sn)[k] IN
             /\ InOrder(c.queued_at, c.sent_at)
             /\ InOrder(c.sent_at, c.ack_at)
             /\ InOrder(c.queued_at, c.ack_at)
    /\ \A sn \in DOMAIN device_commands :
          \A k \in 1..Len(ListOf(sn)) :
             LET c == ListOf(sn)[k] IN
             /\ InOrder(c.queuedAt, c.sentAt)
             /\ InOrder(c.sentAt, c.doneAt)
             /\ InOrder(c.queuedAt, c.doneAt)


-----------------------------------------------------------------------------
\* C22: when two first heartbeats of one serial number run concurrently, each
\* call of get_commands that has its Device in hand holds the Device the
\* registry holds for that serial number, and so flushes the registered queue.
C22_HandlersHoldRegisteredDevice ==
    \A h \in Handlers :
       heartbeats[h].pc = "flush" =>
          /\ heartbeats[h].sn \in DOMAIN device_registry
          /\ ~heartbeats[h].own_object


-----------------------------------------------------------------------------
\* C23: a call addressed to one serial number (enqueue, heartbeat,
\* acknowledgment, cleanup) leaves every other device as it was: the commands
\* and the sequence counter of its ADMSQueue, its connection mode, its list and
\* its counter in the CommandManager.
AddressedStep(sn) == ret'.op # "init" /\ ret'.sn = sn /\ now' = now

C23_OtherDevicesUntouched ==
    [][\A sn \in SerialNumbers :
         AddressedStep(sn) =>
            \A other \in SerialNumbers \ {sn} :
               /\ other \in DOMAIN device_registry =>
                     /\ other \in DOMAIN device_registry'
                     /\ device_registry'[other].adms_queue = device_registry[other].adms_queue
                     /\ device_registry'[other].connection_mode =
                           device_registry[other].connection_mode
               /\ other \notin DOMAIN device_registry => other \notin DOMAIN device_registry'
               /\ (other \in DOMAIN device_commands) <=> (other \in DOMAIN device_commands')
               /\ ListOf(other)' = ListOf(other)
               /\ (other \in DOMAIN device_seq) <=> (other \in DOMAIN device_seq')
               /\ Get(device_seq, other, 0)' = Get(device_seq, other, 0)]_vars

C23_Witness ==
    /\ ret.op = "ack_command"
    /\ ret.sn \in DOMAIN device_registry
    /\ \E k \in 1..Len(QueueOf(ret.sn)) : QueueOf(ret.sn)[k].status = "acked"
    /\ \E other \in DOMAIN device_registry :
          /\ other # ret.sn
          /\ \E k \in 1..Len(QueueOf(other)) : QueueOf(other)[k].status = "pending"


-----------------------------------------------------------------------------
\* C24: when the zk call of restart, poweroff or sync_users fails, the device
\* is put back into mode adms and the command that stands for the call (REBOOT,
\* SHUTDOWN, the query of all users) is added to its queue, pending.
FellBack(sn, command) ==
    LET after == QueueOf(sn)' IN
    /\ device_registry'[sn].connection_mode = "adms"
    /\ Len(after) = Len(QueueOf(sn)) + 1
    /\ after[Len(after)].command = command
    /\ after[Len(after)].status = "pending"

DirectCallStep(sn) ==
    /\ ret'.op \in {"restart_device", "poweroff_device", "sync_users"}
    /\ ret'.sn = sn /\ ret'.ok /\ now' = now

C24_FailedDirectCallFallsBack ==
    [][\A sn \in SerialNumbers :
         DirectCallStep(sn) =>
            \A connect_ok \in BOOLEAN :
               /\ restart_device(sn, connect_ok, FALSE) => FellBack(sn, REBOOT)
               /\ poweroff_device(sn, connect_ok, FALSE) => FellBack(sn, SHUTDOWN)
               /\ actions_sync_users(sn, connect_ok, FALSE) => FellBack(sn, QUERY_ALL_USERS)]_vars

\* C25: a heartbeat with an INFO token that parses, for a device in mode adms
\* whose reported IP the scanner knows as reachable and whose connect attempt
\* succeeds, leaves the device in mode socket+adms with a session.
C25_HeartbeatOpensSession ==
    [][\A sn \in DOMAIN device_registry :
         (HeartbeatStep(sn) /\ ret'.ok /\ device_registry[sn].connection_mode = "adms") =>
            \A info \in { i \in InfoTokens : i.present /\ ~parse_info_raises(i) } :
               get_commands(sn, info, TRUE, TRUE) =>
                  /\ device_registry'[sn].connection_mode = "socket+adms"
                  /\ device_registry'[sn].zk_is_connect]_vars


\* C26: after a heartbeat, a lookup or a call of set_socket_mode for a device,
\* that device is in mode socket+adms only with an established session; after
\* a connect attempt that failed it is in mode adms.
C26_SocketModeOnlyWithSession ==
    (ret.op # "init" /\ ret.sn \in DOMAIN device_registry) =>
        LET d == device_registry[ret.sn] IN
        d.connection_mode = "socket+adms" => d.zk_is_connect

C26_Witness ==
    /\ ret.op = "get_commands"
    /\ ret.sn \in DOMAIN device_registry
    /\ device_registry[ret.sn].connection_mode = "socket+adms"
    /\ device_registry[ret.sn].zk_is_connect
    /\ device_registry[ret.sn].ip # None

\* C27: Device.set_socket_mode(is_on, force) on a device that is already in
\* the mode asked for: without force the mode and the session stay as they
\* are; with force on an established session the session is dropped and a new
\* connect is made, so the device ends connected exactly when that connect
\* succeeds.
SetSocketModeStep(sn) == ret'.op = "set_socket_mode" /\ ret'.sn = sn /\ now' = now

C27_SetSocketModeWhenAlreadyThere ==
    [][\A sn \in DOMAIN device_registry :
         SetSocketModeStep(sn) =>
            \A is_on \in BOOLEAN, force \in BOOLEAN, connect_ok \in BOOLEAN,
               reconnect_ok \in BOOLEAN :
               LET d == get_device(device_registry, sn, connect_ok)[sn]
                   after == device_registry'[sn]
               IN  (/\ actions_set_socket_mode(sn, is_on, force, connect_ok, reconnect_ok)
                    /\ is_on = (d.zk_is_connect /\ d.connection_mode = "socket+adms")) =>
                      /\ ~force => /\ after.connection_mode = d.connection_mode
                                   /\ after.zk_is_connect = d.zk_is_connect
                      /\ (force /\ is_on) =>
                            /\ after.zk_is_connect = reconnect_ok
                            /\ after.connection_mode =
                                  (IF reconnect_ok THEN "socket+adms" ELSE "adms")]_vars

C27_Witness ==
    /\ ret.op = "set_socket_mode"
    /\ ret.sn \in DOMAIN device_registry
    /\ device_registry[ret.sn].connection_mode = "socket+adms"
    /\ device_registry[ret.sn].zk_is_connect
    /\ device_registry[ret.sn].socket_mode


\* C28: when the statistics of a device cannot be read, because there is no
\* session or because the read over the session fails, the caller of get_stats
\* gets a failure and no statistics value, and nothing is added to the queue.
StatsStep(sn) == ret'.op = "get_device_stats" /\ ret'.sn = sn /\ now' = now

C28_UnreadableStatsAreAFailure ==
    [][\A sn \in DOMAIN device_registry :
         StatsStep(sn) =>
            \A connect_ok \in BOOLEAN, reconnect_ok \in BOOLEAN :
               get_device_stats(sn, connect_ok, reconnect_ok, FALSE) =>
                  /\ ~ret'.ok
                  /\ ret'.body = << >>
                  /\ QueueOf(sn)' = QueueOf(sn)]_vars


-----------------------------------------------------------------------------
\* C29: a heartbeat with a serial number that comes when the log-pull interval
\* has elapsed enqueues one DATA QUERY ATTLOG for that device before it drains
\* the list: the command is delivered by this very response, as its last line,
\* after the commands that were pending before.
PullDue == now - last_attlog > ATTLOG_FREQUENCY_MINUTES

EndsWith(text, tail) ==
    /\ Len(text) >= Len(tail)
    /\ SubSeq(text, Len(text) - Len(tail) + 1, Len(text)) = tail

C29_DuePullIsDeliveredLast ==
    [][\A sn \in SerialNumbers :
         (ret'.op = "get_request" /\ ret'.sn = sn /\ now' = now /\ PullDue) =>
            LET before == PendingOf(ListOf(sn))
                cmds == ret'.cmds
                pull == cmds[Len(cmds)]
            IN  /\ Len(cm_issued'[sn]) = Len(cm_issued[sn]) + 1
                /\ Len(cmds) = Len(before) + 1
                /\ \A i \in 1..Len(before) : cmds[i].id = before[i].id
                /\ pull.command = QUERY_ATTLOG
                /\ pull.id = cm_issued'[sn][Len(cm_issued'[sn])]
                /\ pull.queuedAt = now
                /\ EndsWith(ret'.body,
                            <<"C", ":">> \o str(pull.id) \o <<":">> \o QUERY_ATTLOG \o <<"\n">>)
                /\ \A k \in 1..Len(ListOf(sn)') : ListOf(sn)'[k].status # "pending"]_vars

\* after a tick, a heartbeat delivered a command queued earlier and its own pull
C29_Witness ==
    /\ ret.op = "get_request"
    /\ ret.sn \in SerialNumbers
    /\ Len(ret.cmds) = 2
    /\ ret.cmds[1].command # QUERY_ATTLOG
    /\ ret.cmds[1].queuedAt < ret.cmds[2].queuedAt
    /\ ret.cmds[2].command = QUERY_ATTLOG
    /\ last_attlog = now


\* C30: the log-pull window is one for the whole process: any two DATA QUERY
\* ATTLOG commands the heartbeats enqueued, for the same device or for two
\* devices, were enqueued more than the interval apart.
Pulls ==
    { <<sn, k>> \in CMKeys \X (1..(MaxCommands + 1)) :
         k <= Len(ListOf(sn)) /\ ListOf(sn)[k].command = QUERY_ATTLOG }

PullTime(p) == ListOf(p[1])[p[2]].queuedAt

C30_PullsAreAnIntervalApart ==
    \A p \in Pulls, q \in Pulls :
       (p # q /\ PullTime(p) <= PullTime(q)) =>
          PullTime(q) - PullTime(p) > ATTLOG_FREQUENCY_MINUTES

\* two devices each hold a pull
C30_Witness ==
    \E p \in Pulls, q \in Pulls :
       /\ p[1] \in SerialNumbers /\ q[1] \in SerialNumbers /\ p[1] # q[1]
       /\ PullTime(q) > PullTime(p)


-----------------------------------------------------------------------------
\* C31: outside cleanup a command list only grows: no enqueue, drain or
\* acknowledgment removes a command, so an acknowledged command stays listed
\* until a cleanup evicts it.
CleanupOps == {"cleanup_commands", "cm_cleanup_completed_commands"}

KeepsAll(before, after) ==
    \A k \in 1..Len(before) : \E j \in 1..Len(after) : after[j].id = before[k].id

C31_ListsOnlyGrowOutsideCleanup ==
    [][ret'.op \notin CleanupOps =>
          /\ \A sn \in DOMAIN device_registry :
                /\ sn \in DOMAIN device_registry'
                /\ KeepsAll(QueueOf(sn), QueueOf(sn)')
          /\ \A sn \in CMKeys : KeepsAll(ListOf(sn), ListOf(sn)')]_vars


-----------------------------------------------------------------------------
\* the command a record names keeps the code the device sent, in status acked
StoresCode(q, id, r) ==
    \E j \in 1..Len(q) : q[j].id = id /\ q[j].status = "acked" /\ q[j].return_code = r

\* two command lists of an ADMSQueue are the same (return_code is a code only
\* once ack_at is set)
SameQueue(a, b) ==
    /\ Len(a) = Len(b)
    /\ \A k \in 1..Len(a) :
          /\ a[k].id = b[k].id /\ a[k].status = b[k].status
          /\ a[k].sent_at = b[k].sent_at /\ a[k].ack_at = b[k].ack_at
          /\ a[k].ack_at # NoTime => a[k].return_code = b[k].return_code

\* C32: an acknowledgment that names a command of the device records the
\* return code exactly as the device sent it, whatever the code is: after
\* PollingService.ack_command the command is acked with that code, and after
\* POST /devicecmd.aspx the command is listed with that code as its deviceAck.
C32_AckStoresRawCode ==
    [][\A sn \in SerialNumbers, i \in AckIds, r \in ReturnCodes :
         /\ ( /\ AckStep(sn)
              /\ sn \in DOMAIN device_registry
              /\ FirstWithId(QueueOf(sn), i) # 0
              /\ SameQueue(QueueOf(sn)',
                           process_single_ack_line(device_registry[sn], AckRecord(i, r),
                                                   now).adms_queue.commands) )
            => StoresCode(QueueOf(sn)', i, r)
         /\ ( /\ PostStep(sn)
              /\ HasSent(sn, int(i))
              /\ device_command_post(sn, <<AckRecord(i, r)>>) )
            => \E j \in 1..Len(ListOf(sn)') :
                  ListOf(sn)'[j].id = int(i) /\ ListOf(sn)'[j].deviceAck = r]_vars

-----------------------------------------------------------------------------
\* the Device after the records of a body were processed in order
RECURSIVE AckedBy(_, _, _, _)
AckedBy(d, body, k, t) ==
    IF k > Len(body) THEN d
    ELSE AckedBy(process_single_ack_line(d, body[k], t), body, k + 1, t)

\* a record of the body carries that id
Names(body, id) ==
    \E l \in 1..Len(body) :
       ~parse_ack_line_raises(body[l]) /\ parse_ack_line(body[l]).ID = id

StillSent(after, id) ==
    \E j \in 1..Len(after) : after[j].id = id /\ after[j].status = "sent"

\* C33: no command is ever in status failed, and a command in status sent is
\* still listed in status sent after every step that is not an acknowledgment
\* naming its id: heartbeats, enqueues, cleanups, the clock and a change of
\* the connection mode leave it alone.
C33_SentStaysSentUntilAcked ==
    [][/\ \A sn \in DOMAIN device_registry' : \A k \in 1..Len(QueueOf(sn)') :
             QueueOf(sn)'[k].status \in {"pending", "sent", "acked"}
       /\ \A sn \in CMKeys : \A k \in 1..Len(ListOf(sn)') :
             ListOf(sn)'[k].status \in {"pending", "sent", "done"}
       /\ \A sn \in DOMAIN device_registry : \A k \in 1..Len(QueueOf(sn)) :
             QueueOf(sn)[k].status = "sent" =>
                /\ sn \in DOMAIN device_registry'
                /\ \/ StillSent(QueueOf(sn)', QueueOf(sn)[k].id)
                   \/ /\ AckStep(sn)
                      /\ \A body \in AckBodies :
                            SameQueue(QueueOf(sn)',
                                      AckedBy(device_registry[sn], body, 1,
                                              now).adms_queue.commands)
                            => Names(body, QueueOf(sn)[k].id)
       /\ \A sn \in DOMAIN device_registry :
             (\E k \in 1..Len(QueueOf(sn)) : QueueOf(sn)[k].status = "sent") =>
                \A m \in DeviceModes, zk \in BOOLEAN, is_on \in BOOLEAN,
                   force \in BOOLEAN, connect_ok \in BOOLEAN :
                   LET d == [device_registry[sn] EXCEPT !.connection_mode = m,
                                                        !.zk_is_connect = zk]
                   IN  set_socket_mode(d, is_on, force, connect_ok).adms_queue
                          = d.adms_queue
       /\ \A sn \in CMKeys : \A k \in 1..Len(ListOf(sn)) :
             ListOf(sn)[k].status = "sent" =>
                \/ StillSent(ListOf(sn)', ListOf(sn)[k].id)
                \/ /\ ManagerAckStep(sn)
                   /\ \A id \in AckNumbers, ack \in DeviceAcks :
                         cm_acknowledge_command(sn, id, ack) => id = ListOf(sn)[k].id
                \/ /\ PostStep(sn)
                   /\ \A body \in AckBodies :
                         device_command_post(sn, body)
                         => int(FirstValue(QueryParams(body), "ID")) = ListOf(sn)[k].id]_vars

\* time has passed and a cleanup has run on a device that holds a command sent
\* earlier
C33_Witness ==
    /\ ret.op = "cleanup_commands" /\ ret.ok
    /\ ret.sn \in DOMAIN device_registry
    /\ \E k \in 1..Len(QueueOf(ret.sn)) :
          QueueOf(ret.sn)[k].status = "sent" /\ QueueOf(ret.sn)[k].sent_at < now

-----------------------------------------------------------------------------
\* a record with the three fields, in any order, whose ID is an id
WellFormed(line) == ~parse_ack_line_raises(line) /\ parse_ack_line(line).ID \in AckIds

\* C34: every well-formed record of an acknowledgment body that names a sent
\* command of the reporting device is acknowledged, whatever the other records
\* of the body are: after PollingService.ack_command the command is acked,
\* after POST /devicecmd.aspx it is no longer in status sent.
C34_EachRecordIsAcknowledged ==
    [][\A sn \in SerialNumbers, body \in AckBodies :
         /\ ( /\ AckStep(sn)
              /\ sn \in DOMAIN device_registry
              /\ SameQueue(QueueOf(sn)',
                           AckedBy(device_registry[sn], body, 1, now).adms_queue.commands) )
            => \A l \in 1..Len(body), k \in 1..Len(QueueOf(sn)) :
                  ( /\ WellFormed(body[l])
                    /\ QueueOf(sn)[k].id = parse_ack_line(body[l]).ID
                    /\ QueueOf(sn)[k].status = "sent" )
                  => QueueOf(sn)'[k].status = "acked"
         /\ ( /\ PostStep(sn)
              /\ device_command_post(sn, body) )
            => \A l \in 1..Len(body) :
                  ( /\ WellFormed(body[l])
                    /\ HasSent(sn, int(parse_ack_line(body[l]).ID)) )
                  => ~StillSent(ListOf(sn)', int(parse_ack_line(body[l]).ID))]_vars

-----------------------------------------------------------------------------
\* the queue of sn got exactly one more command, pending, with that text
AppendedOne(sn, command) ==
    LET before == QueueOf(sn)
        after == QueueOf(sn)'
    IN  /\ Len(after) = Len(before) + 1
        /\ SubSeq(after, 1, Len(before)) = before
        /\ after[Len(after)].command = command
        /\ after[Len(after)].status = "pending"

\* C35: a call of Device.restart, Device.poweroff or Device.sync_users on a
\* device that is not in an established session returns without error and
\* appends exactly one pending command to the queue of that device: REBOOT,
\* SHUTDOWN, or the query of all users.
C35_DirectCallQueuesOneCommand ==
    [][\A sn \in SerialNumbers :
         DirectCallStep(sn) =>
            \A connect_ok \in BOOLEAN, zk_ok \in BOOLEAN :
               LET reg1 == get_device(device_registry, sn, connect_ok) IN
               (sn \in DOMAIN reg1 /\ ~is_socket_mode(reg1[sn]).socket_mode) =>
                  /\ restart_device(sn, connect_ok, zk_ok) => AppendedOne(sn, REBOOT)
                  /\ poweroff_device(sn, connect_ok, zk_ok) => AppendedOne(sn, SHUTDOWN)
                  /\ actions_sync_users(sn, connect_ok, zk_ok)
                        => AppendedOne(sn, QUERY_ALL_USERS)]_vars

\* a user sync on a device without a session has queued its query behind an
\* earlier command
C35_Witness ==
    /\ ret.op = "sync_users" /\ ret.ok
    /\ ret.sn \in DOMAIN device_registry
    /\ ~device_registry[ret.sn].zk_is_connect
    /\ Len(QueueOf(ret.sn)) = 2
    /\ QueueOf(ret.sn)[2].command = QUERY_ALL_USERS
    /\ QueueOf(ret.sn)[2].status = "pending"

-----------------------------------------------------------------------------
\* C36: a command enqueued on the queue of a device while a heartbeat of that
\* device is being handled is not lost (it is in that heartbeat's response or
\* still pending in the queue) and is not delivered twice (once a response
\* carried it, no later heartbeat response carries it again).
C36_RacedCommandDeliveredOnce ==
    [][\A g \in Handlers, sn \in SerialNumbers :
         (heartbeats[g].pc = "flush" /\ heartbeats[g].sn = sn /\ heartbeats'[g].pc = "idle") =>
            LET late == { issued[sn][i] :
                            i \in (heartbeats[g].start + 1)..Len(issued[sn]) }
            IN  /\ \A id \in late :
                      \/ id \in IdsOf(ret'.cmds)
                      \/ \E k \in 1..Len(QueueOf(sn)') :
                            QueueOf(sn)'[k].id = id /\ QueueOf(sn)'[k].status = "pending"
                /\ \A h \in Handlers : \A x \in heartbeats[h].raced :
                      x.sn = sn => x.id \notin IdsOf(ret'.cmds)]_vars

-----------------------------------------------------------------------------
\* ADMSQueue.add_command run by threads: next_sequence reads the counter,
\* writes it back incremented and reads it again for the id; add_command then
\* builds the command and appends it. Nothing orders the steps of two calls.

\* self.command_sequence += 1: the read
next_sequence_read(e, sn, command) ==
    /\ enqueues[e].pc = "idle"
    /\ sn \in DOMAIN device_registry
    /\ TotalIssued + Cardinality({ u \in Enqueuers : enqueues[u].pc # "idle" }) < MaxCommands
    /\ enqueues' = [enqueues EXCEPT ![e] =
                      [pc |-> "write", sn |-> sn,
                       seq |-> device_registry[sn].adms_queue.command_sequence,
                       id |-> << >>, command |-> command]]
    /\ UNCHANGED <<now, device_registry, ret, issued, heartbeats>>
    /\ CMUnchanged

\* self.command_sequence += 1: the write
next_sequence_write(e) ==
    /\ enqueues[e].pc = "write"
    /\ device_registry' = [device_registry EXCEPT
                             ![enqueues[e].sn].adms_queue.command_sequence =
                                enqueues[e].seq + 1]
    /\ enqueues' = [enqueues EXCEPT ![e].pc = "return"]
    /\ UNCHANGED <<now, ret, issued, heartbeats>>
    /\ CMUnchanged

\* return str(self.command_sequence)
next_sequence_return(e) ==
    /\ enqueues[e].pc = "return"
    /\ enqueues' = [enqueues EXCEPT
                      ![e].pc = "append",
                      ![e].id = str(device_registry[enqueues[e].sn].adms_queue.command_sequence)]
    /\ UNCHANGED <<now, device_registry, ret, issued, heartbeats>>
    /\ CMUnchanged

\* self.commands.append(device_command); return device_command
add_command_append(e) ==
    LET sn == enqueues[e].sn
        device_command == DeviceCommand(enqueues[e].id, enqueues[e].command, now)
    IN
    /\ enqueues[e].pc = "append"
    /\ device_registry' = [device_registry EXCEPT
                             ![sn].adms_queue.commands = Append(@, device_command)]
    /\ issued' = [issued EXCEPT ![sn] = Append(@, enqueues[e].id)]
    /\ ret' = Returned("add_command", sn, TRUE, << >>, <<device_command>>)
    /\ enqueues' = [enqueues EXCEPT ![e] = NoEnqueue]
    /\ UNCHANGED <<now, heartbeats>>
    /\ CMUnchanged

EnqueueNext ==
    \/ Tick
    \/ \E sn \in SerialNumbers : get_commands(sn, NoInfo, FALSE, FALSE)
    \/ \E e \in Enqueuers, sn \in SerialNumbers, text \in CommandTexts :
          next_sequence_read(e, sn, text)
    \/ \E e \in Enqueuers : next_sequence_write(e)
    \/ \E e \in Enqueuers : next_sequence_return(e)
    \/ \E e \in Enqueuers : add_command_append(e)

EnqueueSpec == Init /\ [][EnqueueNext]_vars

\* C37: two calls of add_command on the queue of one device that run at the
\* same time get different ids, and both commands are in the queue: the queue
\* never holds two commands with one id, and holds one command for every
\* finished call.
C37_ConcurrentEnqueuesGetDistinctIds ==
    \A sn \in DOMAIN device_registry :
       /\ \A j \in 1..Len(QueueOf(sn)), k \in 1..Len(QueueOf(sn)) :
             j < k => QueueOf(sn)[j].id # QueueOf(sn)[k].id
       /\ Len(QueueOf(sn)) = Len(issued[sn])

-----------------------------------------------------------------------------
\* A device that keeps polling: heartbeats without INFO are handled again and
\* again; in between, commands are enqueued, heartbeats with an INFO that does
\* not parse fail, and the device acknowledges commands of the response it got.

Poll(sn) == get_commands(sn, NoInfo, FALSE, FALSE)

BadPoll(sn) ==
    \E info \in { i \in InfoTokens : i.present /\ parse_info_raises(i) } :
       get_commands(sn, info, FALSE, FALSE)

\* the device reports on a command of the response it has just received
DeviceAcknowledges(sn) ==
    /\ ret.op = "get_commands" /\ ret.sn = sn /\ ret.ok
    /\ \E k \in 1..Len(ret.cmds), r \in ReturnCodes :
          ack_command(sn, <<AckRecord(ret.cmds[k].id, r)>>, FALSE)

PollingNext ==
    \/ Tick
    \/ \E sn \in SerialNumbers : Poll(sn)
    \/ \E sn \in SerialNumbers : BadPoll(sn)
    \/ \E sn \in SerialNumbers : DeviceAcknowledges(sn)
    \/ \E sn \in SerialNumbers, text \in CommandTexts : queue_command(sn, text, FALSE)

PollingSpec ==
    Init /\ [][PollingNext]_vars /\ \A sn \in SerialNumbers : WF_vars(Poll(sn))

IsPending(sn, id) ==
    /\ sn \in DOMAIN device_registry
    /\ \E k \in 1..Len(QueueOf(sn)) :
          QueueOf(sn)[k].id = id /\ QueueOf(sn)[k].status = "pending"

Delivered(sn, id) ==
    ret.op = "get_commands" /\ ret.sn = sn /\ ret.ok /\ id \in IdsOf(ret.cmds)

-----------------------------------------------------------------------------
\* C39: acked is a final status in an ADMSQueue: a command that is acked is
\* acked after every later operation, for as long as the queue holds it.
C39_AckedIsTerminal ==
    [][\A sn \in DOMAIN device_registry :
         \A k \in 1..Len(QueueOf(sn)) :
            (QueueOf(sn)[k].status = "acked" /\ sn \in DOMAIN device_registry') =>
               \A j \in 1..Len(QueueOf(sn)') :
                  QueueOf(sn)'[j].id = QueueOf(sn)[k].id
                     => QueueOf(sn)'[j].status = "acked"]_vars

-----------------------------------------------------------------------------
\* C40: a cleanup request that names no device succeeds, applies keep_last_n
\* to the queue of every registered device and answers the number of
\* acknowledged commands it removed over all of them.
C40_CleanupOfAllDevices ==
    [][(ret'.op = "cleanup_commands" /\ ret'.sn = None /\ now' = now) =>
          \A n \in 1..MaxKeep :
             cleanup_commands(None, n, FALSE) =>
                /\ ret'.ok
                /\ \A sn \in DOMAIN device_registry :
                      SameQueue(QueueOf(sn)',
                                cleanup_device_commands(device_registry[sn],
                                                        n).adms_queue.commands)
                /\ ret'.body = str(SumLen([sn \in DOMAIN device_registry |->
                                             [i \in 1..CleanedCount(device_registry[sn], n)
                                                |-> i]],
                                          DOMAIN device_registry))]_vars

====
